---- MODULE Spec2Model ----
(***************************************************************************)
(* Model of the infrastructure context gatherer of the alert analyzer      *)
(* (src/lambdas/analyzer/context_gatherer.py): the identifier classifier   *)
(* extract_log_context, the status clients, gather_all_context and the     *)
(* renderer format_context_for_prompt; and of the part of lambda_handler   *)
(* (src/lambdas/analyzer/handler.py) that calls them for a record.         *)
(*                                                                         *)
(* Strings are TLA+ strings; a Python Optional[str] is a sequence of       *)
(* length 0 (None, or a key the dict does not hold) or 1 (the string).     *)
(***************************************************************************)
EXTENDS Integers, Sequences, FiniteSets, TLC

VARIABLES alert, pc, context, calls, exc, context_text, infra_context, sent,
          event, services, result

vars == <<alert, pc, context, calls, exc, context_text, infra_context, sent,
          event, services, result>>

(***************************************************************************)
(* Characters and strings                                                  *)
(***************************************************************************)
Digits == {"0", "1", "2", "3", "4", "5", "6", "7", "8", "9"}

HexLetters == {"a", "b", "c", "d", "e", "f"}

UpperAlphabet == "ABCDEFGHIJKLMNOPQRSTUVWXYZ"

LowerAlphabet == "abcdefghijklmnopqrstuvwxyz"

LowerLetters == {SubSeq(LowerAlphabet, i, i) : i \in 1..Len(LowerAlphabet)}

UpperLetters == {SubSeq(UpperAlphabet, i, i) : i \in 1..Len(UpperAlphabet)}

\* str.lower() on one character
LowerChar(c) ==
    IF c \in UpperLetters
    THEN LET i == CHOOSE k \in 1..Len(UpperAlphabet) : SubSeq(UpperAlphabet, k, k) = c
         IN  SubSeq(LowerAlphabet, i, i)
    ELSE c

RECURSIVE Lower(_)
\* str.lower()
Lower(s) ==
    IF Len(s) = 0 THEN ""
    ELSE LowerChar(SubSeq(s, 1, 1)) \o Lower(SubSeq(s, 2, Len(s)))

\* Python's  sub in s
Contains(sub, s) ==
    \E i \in 1..(Len(s) - Len(sub) + 1) : SubSeq(s, i, i + Len(sub) - 1) = sub

None == <<>>

Some(s) == <<s>>

\* Python truthiness of an Optional[str]
Truthy(v) == v # None /\ v[1] # ""

(***************************************************************************)
(* Regular expressions of extract_log_context.  A pattern is a sequence of *)
(* elements: a literal, or a character class with a repetition range.      *)
(* ci is re.IGNORECASE; cap marks the elements inside the capture group.   *)
(* In every pattern of the source a repeated class is followed by nothing, *)
(* or by a character outside the class, so greedy matching never has to    *)
(* give characters back.                                                   *)
(***************************************************************************)
Lit(s, cap) ==
    [t |-> "lit", lit |-> s, cls |-> {}, neg |-> FALSE,
     min |-> 0, max |-> 0, unbounded |-> FALSE, cap |-> cap]

Cls(set, neg, min, max, unbounded, cap) ==
    [t |-> "cls", lit |-> "", cls |-> set, neg |-> neg,
     min |-> min, max |-> max, unbounded |-> unbounded, cap |-> cap]

InClass(e, c, ci) ==
    LET hit == c \in e.cls \/ (ci /\ LowerChar(c) \in e.cls)
    IN  IF e.neg THEN ~hit ELSE hit

RECURSIVE RunLen(_, _, _, _, _)
\* number of characters of s from position i on that the class takes (greedy)
RunLen(e, s, i, ci, n) ==
    IF i > Len(s) \/ (~e.unbounded /\ n >= e.max) THEN n
    ELSE IF InClass(e, SubSeq(s, i, i), ci) THEN RunLen(e, s, i + 1, ci, n + 1)
    ELSE n

LitAt(e, s, i, ci) ==
    /\ i + Len(e.lit) - 1 <= Len(s)
    /\ LET got == SubSeq(s, i, i + Len(e.lit) - 1)
       IN  IF ci THEN Lower(got) = Lower(e.lit) ELSE got = e.lit

NoMatch == [ok |-> FALSE, end |-> 0, capFrom |-> 0]

RECURSIVE MatchFrom(_, _, _, _, _, _)
\* match elements k.. of pat against s from position i
MatchFrom(pat, k, s, i, ci, capFrom) ==
    IF k > Len(pat) THEN [ok |-> TRUE, end |-> i, capFrom |-> capFrom]
    ELSE LET e  == pat[k]
             cf == IF e.cap /\ capFrom = 0 THEN i ELSE capFrom
         IN  IF e.t = "lit"
             THEN IF LitAt(e, s, i, ci)
                  THEN MatchFrom(pat, k + 1, s, i + Len(e.lit), ci, cf)
                  ELSE NoMatch
             ELSE LET n == RunLen(e, s, i, ci, 0)
                  IN  IF n >= e.min
                      THEN MatchFrom(pat, k + 1, s, i + n, ci, cf)
                      ELSE NoMatch

\* re.search(pat, s) followed by .group(1): the leftmost match's group, or None
re_search(pat, s, ci) ==
    LET hits == {i \in 1..Len(s) : MatchFrom(pat, 1, s, i, ci, 0).ok}
    IN  IF hits = {} THEN None
        ELSE LET i == CHOOSE h \in hits : \A g \in hits : h <= g
                 m == MatchFrom(pat, 1, s, i, ci, 0)
             IN  Some(SubSeq(s, m.capFrom, m.end - 1))

(***************************************************************************)
(* extract_log_context: the patterns                                       *)
(***************************************************************************)
TaskIdLen == 32

InstanceIdMin == 8

InstanceIdMax == 17

ContainerIdMin == 12

ContainerIdMax == 64

AlbHexLen == 16

Hex == Digits \cup HexLetters

WordDash == LowerLetters \cup Digits \cup {"-"}

WordDotDash == WordDash \cup {"."}

AlbName == LowerLetters \cup UpperLetters \cup Digits \cup {"-"}

\* [:\s]
ColonSpace == {":", " ", "\t", "\n", "\r", "\f"}

\* r'/ecs/([^/]+)'
cluster_pattern == <<Lit("/ecs/", FALSE), Cls({"/"}, TRUE, 1, 0, TRUE, TRUE)>>

\* r'([a-f0-9]{32})'
task_pattern == <<Cls(Hex, FALSE, TaskIdLen, TaskIdLen, FALSE, TRUE)>>

\* r'/aws/lambda/([^/]+)'
func_pattern == <<Lit("/aws/lambda/", FALSE), Cls({"/"}, TRUE, 1, 0, TRUE, TRUE)>>

\* r'(i-[a-f0-9]{8,17})'
instance_pattern ==
    <<Lit("i-", TRUE), Cls(Hex, FALSE, InstanceIdMin, InstanceIdMax, FALSE, TRUE)>>

\* r'pod[_-]?name[:\s]+([a-z0-9-]+)'
pod_pattern ==
    <<Lit("pod", FALSE), Cls({"_", "-"}, FALSE, 0, 1, FALSE, FALSE), Lit("name", FALSE),
      Cls(ColonSpace, FALSE, 1, 0, TRUE, FALSE), Cls(WordDash, FALSE, 1, 0, TRUE, TRUE)>>

\* r'node[_-]?name[:\s]+([a-z0-9.-]+)'
node_pattern ==
    <<Lit("node", FALSE), Cls({"_", "-"}, FALSE, 0, 1, FALSE, FALSE), Lit("name", FALSE),
      Cls(ColonSpace, FALSE, 1, 0, TRUE, FALSE), Cls(WordDotDash, FALSE, 1, 0, TRUE, TRUE)>>

\* r'namespace[:\s]+([a-z0-9-]+)'
ns_pattern ==
    <<Lit("namespace", FALSE), Cls(ColonSpace, FALSE, 1, 0, TRUE, FALSE),
      Cls(WordDash, FALSE, 1, 0, TRUE, TRUE)>>

\* r'container[_-]?id[:\s]+([a-f0-9]{12,64})'
container_pattern ==
    <<Lit("container", FALSE), Cls({"_", "-"}, FALSE, 0, 1, FALSE, FALSE), Lit("id", FALSE),
      Cls(ColonSpace, FALSE, 1, 0, TRUE, FALSE),
      Cls(Hex, FALSE, ContainerIdMin, ContainerIdMax, FALSE, TRUE)>>

\* r'(app/[a-zA-Z0-9-]+/[a-f0-9]{16})'
alb_pattern ==
    <<Lit("app/", TRUE), Cls(AlbName, FALSE, 1, 0, TRUE, TRUE), Lit("/", TRUE),
      Cls(Hex, FALSE, AlbHexLen, AlbHexLen, FALSE, TRUE)>>

(***************************************************************************)
(* extract_log_context: the rules                                          *)
(***************************************************************************)
\* '/ecs/' in log_group or '/ecs/' in log_stream
ecs_detected(log_group, log_stream) ==
    Contains("/ecs/", log_group) \/ Contains("/ecs/", log_stream)

\* '/lambda/' in log_group
lambda_detected(log_group) == Contains("/lambda/", log_group)

\* mutant: the marker compared without .lower()
ec2_detected_case_sensitive(log_group) == Contains("ec2", log_group)

\* 'ec2' in log_group.lower()
ec2_detected(log_group) == Contains("ec2", Lower(log_group))

\* 'kubernetes' in message.lower() or 'pod' in log_stream.lower()
kubernetes_detected(message, log_stream) ==
    Contains("kubernetes", Lower(message)) \/ Contains("pod", Lower(log_stream))

cluster_match(log_group) == re_search(cluster_pattern, log_group, FALSE)

\* mutant: the task id searched with re.IGNORECASE
task_match_ignorecase(log_stream) == re_search(task_pattern, log_stream, TRUE)

task_match(log_stream) == re_search(task_pattern, log_stream, FALSE)

func_match(log_group) == re_search(func_pattern, log_group, FALSE)

instance_match(log_stream) == re_search(instance_pattern, log_stream, FALSE)

pod_match(message) == re_search(pod_pattern, message, TRUE)

node_match(message) == re_search(node_pattern, message, TRUE)

ns_match(message) == re_search(ns_pattern, message, TRUE)

container_match(message) == re_search(container_pattern, message, TRUE)

alb_match(message) == re_search(alb_pattern, message, FALSE)

\* mutant: the stream taken as the resource id from the start
InitialLogContext_stream_as_resource(log_group, log_stream) ==
    [log_group |-> log_group, log_stream |-> log_stream,
     infrastructure_type |-> "unknown", resource_id |-> Some(log_stream), pod_name |-> None,
     node_name |-> None, container_id |-> None, cluster_name |-> None,
     task_id |-> None, namespace |-> None, load_balancer_name |-> None]

\* the dict built at the top of extract_log_context; the keys 'namespace' and
\* 'load_balancer_name', which the dict holds only once set, read as None
InitialLogContext(log_group, log_stream) ==
    [log_group |-> log_group, log_stream |-> log_stream,
     infrastructure_type |-> "unknown", resource_id |-> None, pod_name |-> None,
     node_name |-> None, container_id |-> None, cluster_name |-> None,
     task_id |-> None, namespace |-> None, load_balancer_name |-> None]

\* mutant: three independent ifs in place of the if / elif / elif chain
PathRules_independent_ifs(c, log_group, log_stream) ==
    LET c1 == IF ecs_detected(log_group, log_stream)
              THEN [c EXCEPT !.infrastructure_type = "ecs",
                             !.cluster_name = cluster_match(log_group),
                             !.task_id = task_match(log_stream),
                             !.resource_id = task_match(log_stream)]
              ELSE c
        c2 == IF lambda_detected(log_group)
              THEN [c1 EXCEPT !.infrastructure_type = "lambda",
                              !.resource_id = IF func_match(log_group) # None
                                              THEN func_match(log_group)
                                              ELSE c1.resource_id]
              ELSE c1
    IN  IF ec2_detected(log_group)
        THEN [c2 EXCEPT !.infrastructure_type = "ec2",
                        !.resource_id = IF instance_match(log_stream) # None
                                        THEN instance_match(log_stream)
                                        ELSE c2.resource_id]
        ELSE c2

\* the if / elif / elif chain: ECS, Lambda, EC2
PathRules(c, log_group, log_stream) ==
    IF ecs_detected(log_group, log_stream)
    THEN [c EXCEPT !.infrastructure_type = "ecs",
                   !.cluster_name = cluster_match(log_group),
                   !.task_id = task_match(log_stream),
                   !.resource_id = task_match(log_stream)]
    ELSE IF lambda_detected(log_group)
    THEN [c EXCEPT !.infrastructure_type = "lambda",
                   !.resource_id = func_match(log_group)]
    ELSE IF ec2_detected(log_group)
    THEN [c EXCEPT !.infrastructure_type = "ec2",
                   !.resource_id = instance_match(log_stream)]
    ELSE c

\* mutant: the Kubernetes block as one more elif of the chain
KubernetesRule_elif(c, log_stream, message) ==
    IF kubernetes_detected(message, log_stream) /\ c.infrastructure_type = "unknown"
    THEN [c EXCEPT !.infrastructure_type = "kubernetes",
                   !.pod_name = pod_match(message),
                   !.node_name = node_match(message),
                   !.namespace = ns_match(message)]
    ELSE c

\* mutant: the three label scans moved out of the Kubernetes block, next to
\* the container-id scan
KubernetesRule_labels_outside_block(c, log_stream, message) ==
    [c EXCEPT !.infrastructure_type = IF kubernetes_detected(message, log_stream)
                                      THEN "kubernetes" ELSE @,
              !.pod_name = pod_match(message),
              !.node_name = node_match(message),
              !.namespace = ns_match(message)]

\* the Kubernetes block, which runs whatever the chain above did
KubernetesRule(c, log_stream, message) ==
    IF kubernetes_detected(message, log_stream)
    THEN [c EXCEPT !.infrastructure_type = "kubernetes",
                   !.pod_name = pod_match(message),
                   !.node_name = node_match(message),
                   !.namespace = ns_match(message)]
    ELSE c

\* mutant: the two scans nested in the Kubernetes block
MessageRules_kubernetes_only(c, message) ==
    IF c.infrastructure_type = "kubernetes"
    THEN [c EXCEPT !.container_id = container_match(message),
                   !.load_balancer_name = alb_match(message)]
    ELSE c

\* container id and load balancer, scanned in the message
MessageRules(c, message) ==
    [c EXCEPT !.container_id = container_match(message),
              !.load_balancer_name = alb_match(message)]

extract_log_context(log_group, log_stream, message) ==
    MessageRules(
        KubernetesRule(
            PathRules(InitialLogContext(log_group, log_stream), log_group, log_stream),
            log_stream, message),
        message)

(***************************************************************************)
(* Inputs of the classifier                                                *)
(***************************************************************************)
HexSource == "0123456789abcdef0123456789abcdef0123456789abcdef0123456789abcdef0123456789abcdef"

HexRun(n) == SubSeq(HexSource, 1, n)

\* a run of n hex characters that starts with a letter (so it cannot prolong 'i-')
UpperHexRun(n) == SubSeq("ABCDEF0123456789ABCDEF0123456789ABCDEF", 1, n)

ClassifyGroups ==
    {"", "/app/misc", "/ecs/my-cluster/service", "/aws/ecs/prod", "/ecs/",
     "/aws/lambda/my-func", "/custom/lambda/fn", "/aws/lambda/ec2-sync",
     "/aws/lambda/my-func/v2", "/custom/lambda/ec2-fn", "/var/log/EC2/app",
     "/ecs/c1/lambda/ec2"}

ClassifyStreams ==
    {"", "web/" \o HexRun(TaskIdLen), "web/" \o HexRun(TaskIdLen - 1),
     "/ecs/svc/" \o HexRun(TaskIdLen + 8), "task-" \o UpperHexRun(TaskIdLen),
     "i-" \o HexRun(InstanceIdMin), "i-" \o HexRun(InstanceIdMin - 1),
     "host/i-" \o HexRun(InstanceIdMax + 3) \o "/syslog",
     "i-" \o HexRun(TaskIdLen), "pod-web-1", "app/POD/i-" \o HexRun(InstanceIdMax)}

ClassifyMessages ==
    {"", "disk full on /dev/sda1",
     "kubernetes pod_name: web-1 node_name: ip-10-0-1-5",
     "Kubernetes namespace: prod", "KUBERNETES Pod-Name:\tWeb-2 NODENAME: N.1 namespace_name: x",
     "pod_name: web-1 node_name: n1 namespace: prod",
     "pod_name: web-1 namespace: prod container_id: " \o HexRun(ContainerIdMin)
        \o " via app/my-alb/" \o HexRun(AlbHexLen),
     "container_id: " \o HexRun(ContainerIdMin),
     "container id: " \o HexRun(ContainerIdMin),
     "container-id: " \o HexRun(ContainerIdMin - 1),
     "ContainerID " \o UpperHexRun(ContainerIdMin + 2) \o " exited",
     "containerid:" \o HexRun(ContainerIdMax + 6),
     "unhealthy target app/my-alb/" \o HexRun(AlbHexLen),
     "app/my-alb/" \o HexRun(AlbHexLen - 1),
     "APP/my-alb/" \o HexRun(AlbHexLen),
     "oom container_id: " \o HexRun(ContainerIdMin) \o " behind app/my-alb/" \o HexRun(AlbHexLen),
     "kubernetes container_id: " \o HexRun(ContainerIdMin) \o " lb app/Web-ALB-2/" \o HexRun(AlbHexLen + 2)}

ClassifyAlerts ==
    {[has_group |-> TRUE, has_stream |-> TRUE, log_group |-> g, log_stream |-> s, message |-> m] :
        g \in ClassifyGroups, s \in ClassifyStreams, m \in ClassifyMessages}

(***************************************************************************)
(* Python values held by the context: None, a list or a dict.  v holds the *)
(* list's entries, or the dict's items in insertion order, each a key k    *)
(* with an abstract value x.                                               *)
(***************************************************************************)
PyNone == [t |-> "None", v |-> <<>>]

PyList(v) == [t |-> "list", v |-> v]

PyDict(v) == [t |-> "dict", v |-> v]

Entry(k, x) == [k |-> k, x |-> x]

\* Python truthiness of such a value
IsTruthy(p) == p.t # "None" /\ p.v # <<>>

\* the context dict gather_all_context starts from: log_context {} is the
\* empty sequence, the key recent_logs is not there yet, the others are {}
EmptyContext ==
    [log_context |-> None, recent_logs |-> None,
     compute |-> [ecs |-> None, ec2 |-> None],
     load_balancers |-> PyDict(<<>>), recent_changes |-> PyDict(<<>>),
     metrics |-> PyDict(<<>>), resource_tags |-> PyDict(<<>>)]

(***************************************************************************)
(* The classifier on its own: every input, classified once                 *)
(***************************************************************************)
InitClassify ==
    /\ alert \in ClassifyAlerts
    /\ pc = "input"
    /\ context = EmptyContext
    /\ calls = <<>>
    /\ exc = None
    /\ context_text = ""
    /\ infra_context = None
    /\ sent = <<>>
    /\ event = None
    /\ services = None
    /\ result = None

Classify ==
    /\ pc = "input"
    /\ context' = [context EXCEPT !.log_context =
                      Some(extract_log_context(alert.log_group, alert.log_stream, alert.message))]
    /\ pc' = "classified"
    /\ UNCHANGED <<alert, calls, exc, context_text, infra_context, sent,
                   event, services, result>>

NextClassify == Classify

SpecClassify == InitClassify /\ [][NextClassify]_vars

(***************************************************************************)
(* The backing services.  What one boto3 call does:                        *)
(*   ok            it answers with data                                    *)
(*   empty         it answers with nothing that matches                    *)
(*   ClientError   the service answers with an error (access denied,       *)
(*                 resource not found, throttling): botocore raises        *)
(*                 ClientError                                             *)
(*   BotoCoreError the service is not reached (no endpoint connection, a   *)
(*                 connect or read timeout): botocore raises a             *)
(*                 BotoCoreError, which is no ClientError                  *)
(*   KeyError      the answer lacks a key the client's code reads: any     *)
(*                 other exception                                         *)
(***************************************************************************)
Outcomes == {"ok", "empty", "ClientError", "BotoCoreError", "KeyError"}

MaxClusters == 2

\* how a client call ends: the value it returns or the exception that leaves
\* it, and backend, what each boto3 call it made did, in the order made
Returned(value, backend) == [raised |-> None, value |-> value, backend |-> backend]

Raised(exception, backend) ==
    [raised |-> Some(exception), value |-> PyNone, backend |-> backend]

\* try: <one or more backend calls under one try> except ClientError: return unavailable
TryExceptClientError(o, okValue, emptyValue, unavailable) ==
    IF o = "ok" THEN Returned(okValue, <<o>>)
    ELSE IF o = "empty" THEN Returned(emptyValue, <<o>>)
    ELSE IF o = "ClientError" THEN Returned(unavailable, <<o>>)
    ELSE Raised(o, <<o>>)

\* message[:n]
Prefix(s, n) == SubSeq(s, 1, IF Len(s) < n THEN Len(s) ELSE n)

MessageCap == 500

\* one event of the stream as the client keeps it: the message cut to 500
LogEntry(timestamp, message) ==
    [timestamp |-> timestamp, message |-> Prefix(message, MessageCap)]

\* the list kept of a response's events: one entry per event, in the order
\* of the response
RecentLogs(events) ==
    [i \in 1..Len(events) |-> LogEntry(events[i].timestamp, events[i].message)]

get_recent_logs(log_group, log_stream, o) ==
    TryExceptClientError(o,
        PyList(RecentLogs(<<[timestamp |-> 3723004, message |-> "ERROR disk full on /dev/sda1"]>>)),
        PyList(<<>>), PyList(<<>>))

get_ec2_instance_status(instance_id, o) ==
    TryExceptClientError(o,
        PyDict(<<Entry("instance_id", instance_id), Entry("instance_state", "running"),
                 Entry("system_status", "ok"), Entry("instance_status", "impaired"),
                 Entry("events", <<[code |-> "instance-reboot", description |-> "reboot",
                                    not_before |-> ""]>>)>>),
        PyNone, PyNone)

RECURSIVE ProbeClusters(_, _, _, _)
\* the for loop over clusters_to_check: probes[k] is what describe_tasks does
\* on the k-th cluster; done are the boto3 calls made before the loop
ProbeClusters(task_id, probes, k, done) ==
    IF k > Len(probes) THEN Returned(PyNone, done \o probes)
    ELSE IF probes[k] = "ok"
         THEN Returned(PyDict(<<Entry("task_id", task_id), Entry("cluster", ToString(k)),
                                Entry("task_arn", "arn:task/" \o task_id),
                                Entry("last_status", "STOPPED"),
                                Entry("desired_status", "RUNNING"),
                                Entry("health_status", "UNHEALTHY"),
                                Entry("containers",
                                      <<[name |-> "web", last_status |-> "STOPPED",
                                         exit_code |-> <<137>>, reason |-> "OOM"],
                                        [name |-> "sidecar", last_status |-> "RUNNING",
                                         exit_code |-> <<>>, reason |-> ""]>>),
                                Entry("cpu", "256"), Entry("memory", "512")>>),
                       done \o SubSeq(probes, 1, k))
    ELSE IF probes[k] \in {"empty", "ClientError"}
         THEN ProbeClusters(task_id, probes, k + 1, done)
    ELSE Raised(probes[k], done \o SubSeq(probes, 1, k))

\* mutant: only the first cluster list_clusters names is probed
get_ecs_task_health_first_cluster_only(task_id, cluster_name, listed, probes) ==
    IF listed = "ok"
    THEN ProbeClusters(task_id, SubSeq(probes, 1, IF Len(probes) < 1 THEN Len(probes) ELSE 1),
                       1, <<listed>>)
    ELSE IF listed \in {"empty", "ClientError"} THEN Returned(PyNone, <<listed>>)
    ELSE Raised(listed, <<listed>>)

\* cluster_name is None in the call gather_all_context makes, so the clusters
\* are those list_clusters names; listed is what list_clusters does
get_ecs_task_health(task_id, cluster_name, listed, probes) ==
    IF cluster_name # None THEN ProbeClusters(task_id, probes, 1, <<>>)
    ELSE IF listed = "ok" THEN ProbeClusters(task_id, probes, 1, <<listed>>)
    ELSE IF listed \in {"empty", "ClientError"} THEN Returned(PyNone, <<listed>>)
    ELSE Raised(listed, <<listed>>)

get_alb_target_health(load_balancer_name, o) ==
    TryExceptClientError(o,
        PyDict(<<Entry("load_balancer", load_balancer_name), Entry("state", "active"),
                 Entry("target_groups",
                       <<[name |-> "web-tg", healthy_targets |-> 1, total_targets |-> 2]>>)>>),
        PyNone, PyNone)

\* one stack with recent events, as the client keeps it
StackChange(stack_name, status, failed_resources) ==
    [stack_name |-> stack_name, status |-> status, failed_resources |-> failed_resources]

get_recent_cloudformation_changes(o) ==
    TryExceptClientError(o,
        PyList(<<StackChange("web-stack", "UPDATE_ROLLBACK_COMPLETE",
                             <<[resource |-> "WebService", status |-> "UPDATE_FAILED",
                                reason |-> "timed out"]>>)>>),
        PyList(<<>>), PyList(<<>>))

\* the (key, ...) list of metric_queries for the log group's shape
metric_queries(log_group) ==
    IF Contains("/lambda/", log_group) THEN <<"errors", "duration", "concurrency">>
    ELSE IF Contains("/ecs/", log_group) THEN <<"cpu", "memory">>
    ELSE <<>>

MetricsSkeleton ==
    <<Entry("period", "30 minutes"), Entry("cpu", PyDict(<<>>)), Entry("memory", PyDict(<<>>)),
      Entry("errors", PyDict(<<>>))>>

\* a datapoint of a get_metric_statistics answer: value is the statistic the
\* query asks for, a number of tenths (425 is 42.5)
Datapoint(timestamp, value) == [Timestamp |-> timestamp, value |-> value]

\* mutant: the datapoints left in the order of the answer
sorted_as_answered(datapoints) == datapoints

RECURSIVE sorted(_)
\* sorted(response['Datapoints'], key=lambda x: x['Timestamp']): the earliest
\* first, datapoints of one time stamp in the order of the response
sorted(datapoints) ==
    IF datapoints = <<>> THEN <<>>
    ELSE LET i == CHOOSE x \in DOMAIN datapoints :
                     /\ \A y \in DOMAIN datapoints :
                           datapoints[x].Timestamp <= datapoints[y].Timestamp
                     /\ \A y \in 1..(x - 1) :
                           datapoints[y].Timestamp # datapoints[x].Timestamp
         IN  <<datapoints[i]>>
                 \o sorted([j \in 1..(Len(datapoints) - 1) |->
                               IF j < i THEN datapoints[j] ELSE datapoints[j + 1]])

RECURSIVE sum(_)
sum(datapoints) ==
    IF datapoints = <<>> THEN 0 ELSE Head(datapoints).value + sum(Tail(datapoints))

\* the statistics kept for a metric with datapoints, sorted by time.  The
\* average is the quotient sum / len: the series of the model have sums that
\* their length divides, so that it is a number of tenths too
MetricStats(datapoints) ==
    PyDict(<<Entry("current", datapoints[Len(datapoints)].value),
             Entry("average", sum(datapoints) \div Len(datapoints)),
             Entry("max", CHOOSE v \in {datapoints[i].value : i \in DOMAIN datapoints} :
                             \A i \in DOMAIN datapoints : datapoints[i].value <= v),
             Entry("datapoints", Len(datapoints))>>)

\* metrics[key] = {...}
SetKey(items, key, x) ==
    IF \E i \in 1..Len(items) : items[i].k = key
    THEN [i \in 1..Len(items) |-> IF items[i].k = key THEN Entry(key, x) ELSE items[i]]
    ELSE Append(items, Entry(key, x))

\* what get_metric_statistics does for one query: o as in Outcomes (empty:
\* an answer without datapoints) and the datapoints of the answer
MetricAnswer(o, datapoints) == [outcome |-> o, Datapoints |-> datapoints]

\* the answers to a list of queries that end as qs says, an answer with
\* datapoints holding three, not in the order of time
Answers(qs) ==
    [i \in DOMAIN qs |->
        MetricAnswer(qs[i], IF qs[i] = "ok"
                            THEN <<Datapoint(300, 910), Datapoint(900, 425), Datapoint(600, 165)>>
                            ELSE <<>>)]

RECURSIVE FetchMetrics(_, _, _, _)
\* the for loop over metric_queries: answers[k] is what get_metric_statistics
\* does for the k-th query; a ClientError is caught inside the loop
FetchMetrics(keys, answers, k, items) ==
    IF k > Len(keys)
    THEN Returned(PyDict(items), [i \in 1..Len(keys) |-> answers[i].outcome])
    ELSE IF answers[k].outcome \in {"ok", "empty"}
         THEN FetchMetrics(keys, answers, k + 1,
                           IF answers[k].Datapoints # <<>>
                           THEN SetKey(items, keys[k], MetricStats(sorted(answers[k].Datapoints)))
                           ELSE items)
    ELSE IF answers[k].outcome = "ClientError" THEN FetchMetrics(keys, answers, k + 1, items)
    ELSE Raised(answers[k].outcome, [i \in 1..k |-> answers[i].outcome])

get_cloudwatch_metrics(log_group, answers) ==
    FetchMetrics(metric_queries(log_group), answers, 1, MetricsSkeleton)

\* mutant: the tags read from the backend whatever the kind
get_resource_tags_of_any_kind(resource_id, resource_type, o) ==
    TryExceptClientError(o, PyDict(<<Entry("Name", "web-1"), Entry("env", "prod")>>),
                         PyDict(<<>>), PyDict(<<>>))

\* only an EC2 resource has its tags read from a backend
get_resource_tags(resource_id, resource_type, o) ==
    IF resource_type = "ec2"
    THEN TryExceptClientError(o, PyDict(<<Entry("Name", "web-1"), Entry("env", "prod")>>),
                              PyDict(<<>>), PyDict(<<>>))
    ELSE Returned(PyDict(<<>>), <<>>)

(***************************************************************************)
(* gather_all_context, one step per client call it makes                   *)
(***************************************************************************)
GatherInputs ==
    {<<"/ecs/my-cluster/service", "web/" \o HexRun(TaskIdLen),
       "unhealthy target app/my-alb/" \o HexRun(AlbHexLen)>>,
     <<"/var/log/EC2/app", "i-" \o HexRun(InstanceIdMax), "disk full on /dev/sda1">>,
     <<"/aws/lambda/my-func", "2026/11/03/[$LATEST]" \o HexRun(TaskIdLen - 1), "">>,
     <<"/app/misc", "stream-1", "disk full on /dev/sda1">>,
     <<"/ecs/my-cluster/service", "web/" \o HexRun(TaskIdLen),
       "kubernetes pod_name: web-1 node_name: ip-10-0-1-5">>,
     <<"/ecs/my-cluster/service", "web/" \o HexRun(TaskIdLen - 1), "">>,
     <<"/var/log/EC2/app", "i-" \o HexRun(InstanceIdMin - 1), "">>,
     <<"/custom/lambda/fn", "stream-1", "">>}

\* an alert may come without the key log_group or log_stream
GatherAlerts ==
    {[has_group |-> hg, has_stream |-> hs,
      log_group |-> IF hg THEN in[1] ELSE "",
      log_stream |-> IF hs THEN in[2] ELSE "",
      message |-> in[3]] : in \in GatherInputs, hg \in BOOLEAN, hs \in BOOLEAN}

\* context['log_context'].get(key)
infra_type(ctx) ==
    IF ctx.log_context = None THEN None ELSE Some(ctx.log_context[1].infrastructure_type)

resource_id(ctx) ==
    IF ctx.log_context = None THEN None ELSE ctx.log_context[1].resource_id

load_balancer_name(ctx) ==
    IF ctx.log_context = None THEN None ELSE ctx.log_context[1].load_balancer_name

Init ==
    /\ alert \in GatherAlerts
    /\ pc = "start"
    /\ context = EmptyContext
    /\ calls = <<>>
    /\ exc = None
    /\ context_text = ""
    /\ infra_context = None
    /\ sent = <<>>
    /\ event = None
    /\ services = None
    /\ result = None

\* the call fn(args) was made and ended as r: an exception leaves
\* gather_all_context, which has no try of its own; a value is stored
AfterCall(fn, args, r, stored, next) ==
    /\ calls' = Append(calls, [fn |-> fn, args |-> args, backend |-> r.backend,
                               raised |-> r.raised])
    /\ IF r.raised # None
       THEN /\ pc' = "raised"
            /\ exc' = r.raised
            /\ context' = context
       ELSE /\ pc' = next
            /\ exc' = exc
            /\ context' = stored
    /\ UNCHANGED <<alert, context_text, infra_context, sent, event, services, result>>

NoCall(next) ==
    /\ pc' = next
    /\ UNCHANGED <<alert, context, calls, exc, context_text, infra_context, sent,
                   event, services, result>>

\* mutant: the alert classified as soon as it has a log group, an absent
\* stream taken as ''
GatherStart_classify_without_stream ==
    /\ pc = "start"
    /\ context' =
          IF alert.has_group
          THEN [EmptyContext EXCEPT !.log_context =
                   Some(extract_log_context(alert.log_group, alert.log_stream, alert.message))]
          ELSE EmptyContext
    /\ pc' = "recent_logs"
    /\ UNCHANGED <<alert, calls, exc, context_text, infra_context, sent, event, services, result>>

GatherStart ==
    /\ pc = "start"
    /\ context' =
          IF alert.has_group /\ alert.has_stream
          THEN [EmptyContext EXCEPT !.log_context =
                   Some(extract_log_context(alert.log_group, alert.log_stream, alert.message))]
          ELSE EmptyContext
    /\ pc' = "recent_logs"
    /\ UNCHANGED <<alert, calls, exc, context_text, infra_context, sent,
                   event, services, result>>

CallRecentLogs ==
    /\ pc = "recent_logs"
    /\ IF alert.has_group /\ alert.has_stream
       THEN \E o \in Outcomes :
               LET r == get_recent_logs(alert.log_group, alert.log_stream, o)
               IN  AfterCall("get_recent_logs", <<alert.log_group, alert.log_stream>>, r,
                             [context EXCEPT !.recent_logs = Some(r.value)], "compute")
       ELSE NoCall("compute")

\* mutant: the ECS task client asked for an alert of kind kubernetes too
CallCompute_ecs_for_kubernetes ==
    /\ pc = "compute"
    /\ IF infra_type(context) \in {Some("ecs"), Some("kubernetes")} /\ Truthy(resource_id(context))
       THEN \E listed \in Outcomes : \E n \in 0..MaxClusters : \E probes \in [1..n -> Outcomes] :
               /\ listed # "ok" => n = 0
               /\ LET r == get_ecs_task_health(resource_id(context)[1], None, listed, probes)
                  IN  AfterCall("get_ecs_task_health", <<resource_id(context)[1]>>,
                                r,
                                [context EXCEPT !.compute.ecs = Some(r.value)], "load_balancers")
       ELSE IF infra_type(context) = Some("ec2") /\ Truthy(resource_id(context))
       THEN \E o \in Outcomes :
               LET r == get_ec2_instance_status(resource_id(context)[1], o)
               IN  AfterCall("get_ec2_instance_status", <<resource_id(context)[1]>>, r,
                             [context EXCEPT !.compute.ec2 = Some(r.value)], "load_balancers")
       ELSE NoCall("load_balancers")

CallCompute ==
    /\ pc = "compute"
    /\ IF infra_type(context) = Some("ecs") /\ Truthy(resource_id(context))
       THEN \E listed \in Outcomes : \E n \in 0..MaxClusters : \E probes \in [1..n -> Outcomes] :
               /\ listed # "ok" => n = 0
               /\ LET r == get_ecs_task_health(resource_id(context)[1], None, listed, probes)
                  IN  AfterCall("get_ecs_task_health", <<resource_id(context)[1]>>,
                                r,
                                [context EXCEPT !.compute.ecs = Some(r.value)], "load_balancers")
       ELSE IF infra_type(context) = Some("ec2") /\ Truthy(resource_id(context))
       THEN \E o \in Outcomes :
               LET r == get_ec2_instance_status(resource_id(context)[1], o)
               IN  AfterCall("get_ec2_instance_status", <<resource_id(context)[1]>>, r,
                             [context EXCEPT !.compute.ec2 = Some(r.value)], "load_balancers")
       ELSE NoCall("load_balancers")

\* mutant: the load balancer looked for in the alert's message, classified or not
CallLoadBalancer_from_message ==
    /\ pc = "load_balancers"
    /\ IF Truthy(alb_match(alert.message))
       THEN \E o \in Outcomes :
               LET r == get_alb_target_health(alb_match(alert.message)[1], o)
               IN  AfterCall("get_alb_target_health", <<alb_match(alert.message)[1]>>, r,
                             [context EXCEPT !.load_balancers = r.value], "recent_changes")
       ELSE NoCall("recent_changes")

CallLoadBalancer ==
    /\ pc = "load_balancers"
    /\ IF Truthy(load_balancer_name(context))
       THEN \E o \in Outcomes :
               LET r == get_alb_target_health(load_balancer_name(context)[1], o)
               IN  AfterCall("get_alb_target_health", <<load_balancer_name(context)[1]>>, r,
                             [context EXCEPT !.load_balancers = r.value], "recent_changes")
       ELSE NoCall("recent_changes")

\* mutant: the recent stack changes read only for an alert with a log group
CallRecentChanges_if_log_group ==
    /\ pc = "recent_changes"
    /\ IF alert.has_group
       THEN \E o \in Outcomes :
               LET r == get_recent_cloudformation_changes(o)
               IN  AfterCall("get_recent_cloudformation_changes", <<>>, r,
                             [context EXCEPT !.recent_changes = r.value], "metrics")
       ELSE NoCall("metrics")

CallRecentChanges ==
    /\ pc = "recent_changes"
    /\ \E o \in Outcomes :
          LET r == get_recent_cloudformation_changes(o)
          IN  AfterCall("get_recent_cloudformation_changes", <<>>, r,
                        [context EXCEPT !.recent_changes = r.value], "metrics")

CallMetrics ==
    /\ pc = "metrics"
    /\ IF alert.has_group
       THEN \E qs \in [1..Len(metric_queries(alert.log_group)) -> Outcomes] :
               LET r == get_cloudwatch_metrics(alert.log_group, Answers(qs))
               IN  AfterCall("get_cloudwatch_metrics", <<alert.log_group>>, r,
                             [context EXCEPT !.metrics = r.value], "resource_tags")
       ELSE NoCall("resource_tags")

\* mutant: the tags read for every classified alert
CallResourceTags_whenever_classified ==
    /\ pc = "resource_tags"
    /\ IF context.log_context # None
       THEN \E o \in Outcomes :
               LET id == IF resource_id(context) = None THEN "" ELSE resource_id(context)[1]
                   r  == get_resource_tags(id, infra_type(context)[1], o)
               IN  AfterCall("get_resource_tags", <<id, infra_type(context)[1]>>, r,
                             [context EXCEPT !.resource_tags = r.value], "returned")
       ELSE NoCall("returned")

CallResourceTags ==
    /\ pc = "resource_tags"
    /\ IF Truthy(resource_id(context))
       THEN \E o \in Outcomes :
               LET r == get_resource_tags(resource_id(context)[1], infra_type(context)[1], o)
               IN  AfterCall("get_resource_tags",
                             <<resource_id(context)[1], infra_type(context)[1]>>, r,
                             [context EXCEPT !.resource_tags = r.value], "returned")
       ELSE NoCall("returned")

(***************************************************************************)
(* format_context_for_prompt: the context as the text put in the prompt.   *)
(* sections is the list of lines the code appends to; a header other than  *)
(* the first starts with a newline, so that a blank line precedes it.      *)
(***************************************************************************)
LogLinesCap == 10

LogLineWidth == 200

ChangesCap == 5

ContainerIdShown == 12

\* stands for the warning sign (U+26A0 U+FE0F) of the source, a character a
\* string of this module cannot hold
WarningSign == "(!)"

RECURSIVE Join(_, _)
\* sep.join(lines)
Join(lines, sep) ==
    IF Len(lines) = 0 THEN ""
    ELSE IF Len(lines) = 1 THEN lines[1]
    ELSE lines[1] \o sep \o Join(Tail(lines), sep)

\* d.get(key) on a dict value: the value in a sequence of length 1, or None
DictGet(d, key) ==
    IF \E i \in 1..Len(d.v) : d.v[i].k = key
    THEN <<d.v[CHOOSE i \in 1..Len(d.v) : d.v[i].k = key].x>>
    ELSE <<>>

Pad2(n) == IF n < 10 THEN "0" \o ToString(n) ELSE ToString(n)

\* datetime.fromtimestamp(ms / 1000).strftime('%H:%M:%S'), the local time
\* zone being UTC
strftime(ms) ==
    LET secs == ms \div 1000
    IN  Pad2((secs \div 3600) % 24) \o ":" \o Pad2((secs \div 60) % 60) \o ":" \o Pad2(secs % 60)

\* a number of tenths as Python prints it, under :.1f and under str alike
Tenths(t) == ToString(t \div 10) \o "." \o ToString(t % 10)

\* if lc.get(key): sections.append(label + value)
OptionalLine(label, v) == IF Truthy(v) THEN <<label \o v[1]>> ELSE <<>>

LogContextSection(ctx) ==
    IF ctx.log_context = None THEN <<>>
    ELSE LET lc == ctx.log_context[1]
         IN  <<"## Infrastructure Context", "- Type: " \o lc.infrastructure_type>>
                 \o OptionalLine("- Pod: ", lc.pod_name)
                 \o OptionalLine("- Node: ", lc.node_name)
                 \o OptionalLine("- ECS Task: ", lc.task_id)
                 \o OptionalLine("- Cluster: ", lc.cluster_name)
                 \o (IF Truthy(lc.container_id)
                     THEN <<"- Container: " \o Prefix(lc.container_id[1], ContainerIdShown)>>
                     ELSE <<>>)
                 \o OptionalLine("- Resource ID: ", lc.resource_id)

\* mutant: every stored entry shown, each message whole
RecentLogsSection_uncapped(ctx) ==
    IF ctx.recent_logs = None \/ ~IsTruthy(ctx.recent_logs[1]) THEN <<>>
    ELSE LET logs == ctx.recent_logs[1].v
         IN  <<"\n## Recent Log Entries (last 10 minutes)">>
                 \o [i \in 1..Len(logs) |->
                        "[" \o strftime(logs[i].timestamp) \o "] " \o logs[i].message]

RecentLogsSection(ctx) ==
    IF ctx.recent_logs = None \/ ~IsTruthy(ctx.recent_logs[1]) THEN <<>>
    ELSE LET logs == ctx.recent_logs[1].v
             shown == SubSeq(logs, 1, IF Len(logs) < LogLinesCap THEN Len(logs) ELSE LogLinesCap)
         IN  <<"\n## Recent Log Entries (last 10 minutes)">>
                 \o [i \in 1..Len(shown) |->
                        "[" \o strftime(shown[i].timestamp) \o "] "
                            \o Prefix(shown[i].message, LogLineWidth)]

RECURSIVE Flatten(_)
\* the lines of one block after another
Flatten(blocks) ==
    IF Len(blocks) = 0 THEN <<>> ELSE Head(blocks) \o Flatten(Tail(blocks))

Ec2HealthSection(ctx) ==
    IF ctx.compute.ec2 = None \/ ~IsTruthy(ctx.compute.ec2[1]) THEN <<>>
    ELSE LET ec2 == ctx.compute.ec2[1]
             events == DictGet(ec2, "events")
         IN  <<"\n## EC2 Instance Health",
               "- State: " \o DictGet(ec2, "instance_state")[1],
               "- System Status: " \o DictGet(ec2, "system_status")[1],
               "- Instance Status: " \o DictGet(ec2, "instance_status")[1]>>
                 \o (IF events # None /\ events[1] # <<>>
                     THEN <<"- Events: "
                              \o Join([i \in 1..Len(events[1]) |-> events[1][i].code], ", ")>>
                     ELSE <<>>)

EcsHealthSection(ctx) ==
    IF ctx.compute.ecs = None \/ ~IsTruthy(ctx.compute.ecs[1]) THEN <<>>
    ELSE LET ecs == ctx.compute.ecs[1]
             containers == IF DictGet(ecs, "containers") = None THEN <<>>
                           ELSE DictGet(ecs, "containers")[1]
         IN  <<"\n## ECS Task Health",
               "- Last Status: " \o DictGet(ecs, "last_status")[1],
               "- Desired Status: " \o DictGet(ecs, "desired_status")[1],
               "- Health: " \o DictGet(ecs, "health_status")[1],
               "- Containers:">>
                 \o Flatten([i \in 1..Len(containers) |->
                        <<"  - " \o containers[i].name \o ": " \o containers[i].last_status>>
                            \o (IF containers[i].exit_code # None /\ containers[i].exit_code[1] # 0
                                THEN <<"    Exit code: " \o ToString(containers[i].exit_code[1])>>
                                ELSE <<>>)])

\* context['compute'] is a dict of two keys, so it is always entered
ComputeSection(ctx) == Ec2HealthSection(ctx) \o EcsHealthSection(ctx)

LoadBalancerSection(ctx) ==
    IF ~IsTruthy(ctx.load_balancers) THEN <<>>
    ELSE LET lb == ctx.load_balancers
             tgs == IF DictGet(lb, "target_groups") = None THEN <<>>
                    ELSE DictGet(lb, "target_groups")[1]
         IN  <<"\n## Load Balancer Health", "- State: " \o DictGet(lb, "state")[1]>>
                 \o [i \in 1..Len(tgs) |->
                        "- " \o tgs[i].name \o ": " \o ToString(tgs[i].healthy_targets) \o "/"
                             \o ToString(tgs[i].total_targets) \o " healthy"]

RecentChangesSection(ctx) ==
    IF ~IsTruthy(ctx.recent_changes) THEN <<>>
    ELSE LET changes == ctx.recent_changes.v
             shown == SubSeq(changes, 1,
                             IF Len(changes) < ChangesCap THEN Len(changes) ELSE ChangesCap)
         IN  <<"\n## Recent Infrastructure Changes (last 24h)">>
                 \o Flatten([i \in 1..Len(shown) |->
                        <<"- " \o shown[i].stack_name \o ": " \o shown[i].status>>
                            \o [j \in 1..Len(shown[i].failed_resources) |->
                                   "  " \o WarningSign \o " "
                                        \o shown[i].failed_resources[j].resource \o ": "
                                        \o shown[i].failed_resources[j].reason]])

\* if metrics.get(key): the key holds statistics
HasStats(metrics, key) ==
    DictGet(metrics, key) # None /\ IsTruthy(DictGet(metrics, key)[1])

PercentLine(label, m) ==
    label \o "current=" \o Tenths(DictGet(m, "current")[1]) \o "%, avg="
          \o Tenths(DictGet(m, "average")[1]) \o "%, max=" \o Tenths(DictGet(m, "max")[1]) \o "%"

ErrorsLine(m) ==
    "- Errors: current=" \o Tenths(DictGet(m, "current")[1]) \o ", total="
        \o (IF DictGet(m, "max") = None THEN "0" ELSE Tenths(DictGet(m, "max")[1]))

MetricsSection(ctx) ==
    IF ~IsTruthy(ctx.metrics) THEN <<>>
    ELSE LET metrics == ctx.metrics
             period == IF DictGet(metrics, "period") = None THEN "recent"
                       ELSE DictGet(metrics, "period")[1]
         IN  <<"\n## CloudWatch Metrics (" \o period \o ")">>
                 \o (IF HasStats(metrics, "cpu")
                     THEN <<PercentLine("- CPU: ", DictGet(metrics, "cpu")[1])>> ELSE <<>>)
                 \o (IF HasStats(metrics, "memory")
                     THEN <<PercentLine("- Memory: ", DictGet(metrics, "memory")[1])>> ELSE <<>>)
                 \o (IF HasStats(metrics, "errors")
                     THEN <<ErrorsLine(DictGet(metrics, "errors")[1])>> ELSE <<>>)

ResourceTagsSection(ctx) ==
    IF ~IsTruthy(ctx.resource_tags) THEN <<>>
    ELSE <<"\n## Resource Tags">>
             \o [i \in 1..Len(ctx.resource_tags.v) |->
                    "- " \o ctx.resource_tags.v[i].k \o ": " \o ctx.resource_tags.v[i].x]

\* mutant: the tags rendered before the metrics
format_sections_tags_before_metrics(ctx) ==
    LogContextSection(ctx) \o RecentLogsSection(ctx) \o ComputeSection(ctx)
        \o LoadBalancerSection(ctx) \o RecentChangesSection(ctx) \o ResourceTagsSection(ctx)
        \o MetricsSection(ctx)

\* the list sections when the function returns
format_sections(ctx) ==
    LogContextSection(ctx) \o RecentLogsSection(ctx) \o ComputeSection(ctx)
        \o LoadBalancerSection(ctx) \o RecentChangesSection(ctx) \o MetricsSection(ctx)
        \o ResourceTagsSection(ctx)

format_context_for_prompt(ctx) == Join(format_sections(ctx), "\n")

(***************************************************************************)
(* lambda_handler of the analyzer, for the record it processes, from the   *)
(* call of gather_all_context on (src/lambdas/analyzer/handler.py).        *)
(* infra_context is None for {} and before it is assigned.                 *)
(***************************************************************************)
FallbackText == "Context gathering failed - analyzing with limited information"

\* gather_all_context returned: the context is rendered inside the same try
HandlerFormat ==
    /\ pc = "returned"
    /\ infra_context' = Some(context)
    /\ context_text' = format_context_for_prompt(context)
    /\ pc' = "analyze"
    /\ UNCHANGED <<alert, context, calls, exc, sent, event, services, result>>

\* mutant: no except clause, the exception leaves lambda_handler
HandlerCatch_reraise ==
    /\ pc = "raised"
    /\ pc' = "unhandled"
    /\ UNCHANGED <<alert, context, calls, exc, sent, context_text, infra_context,
                   event, services, result>>

\* except Exception: the fixed text and an empty context
HandlerCatch ==
    /\ pc = "raised"
    /\ infra_context' = None
    /\ context_text' = FallbackText
    /\ pc' = "analyze"
    /\ UNCHANGED <<alert, context, calls, exc, sent, event, services, result>>

\* what the POST to the model API does: an answer with candidates, an
\* answer with an error, an answer with neither, or an exception
GeminiOutcomes == {"candidates", "error", "neither", "raise"}

SendOutcomes == {"ok", "raise"}

\* infra_context.get('log_context', {}).get(key, default)
InfraField(key, default) ==
    IF infra_context = None \/ infra_context[1].log_context = None THEN Some(default)
    ELSE IF key = "infrastructure_type" THEN Some(infra_context[1].log_context[1][key])
    ELSE infra_context[1].log_context[1][key]

distribution_message(analysis) ==
    [alert |-> alert.message, analysis |-> analysis,
     log_group |-> alert.log_group, log_stream |-> alert.log_stream,
     infrastructure_context |->
        [type |-> InfraField("infrastructure_type", "unknown"),
         resource_id |-> InfraField("resource_id", ""),
         pod_name |-> InfraField("pod_name", ""),
         task_id |-> InfraField("task_id", "")]]

\* the prompt is built, the model is asked, the analysis is sent to the
\* distribution queue and the handler returns, from inside the loop over the
\* records; neither call is inside a try
Distribute ==
    /\ pc = "analyze"
    /\ \E g \in GeminiOutcomes : \E q \in SendOutcomes :
          LET analysis == IF g = "candidates" THEN "analysis text"
                          ELSE IF g = "error" THEN "Error calling Gemini: quota"
                          ELSE "No analysis returned from Gemini"
              asked == [fn |-> "http.request", args |-> <<alert.message, context_text>>,
                        backend |-> <<g>>,
                        raised |-> IF g = "raise" THEN Some("HTTPError") ELSE None]
              queued == [fn |-> "sqs.send_message", args |-> <<alert.message>>,
                         backend |-> <<q>>,
                         raised |-> IF q = "raise" THEN Some("ClientError") ELSE None]
          IN  IF g = "raise"
              THEN /\ calls' = Append(calls, asked)
                   /\ pc' = "unhandled"
                   /\ sent' = sent
                   /\ result' = result
              ELSE /\ calls' = Append(Append(calls, asked), queued)
                   /\ pc' = IF q = "raise" THEN "unhandled" ELSE "done"
                   /\ sent' = IF q = "raise" THEN sent
                              ELSE Append(sent, distribution_message(analysis))
                   /\ result' = IF q = "raise" THEN result
                                ELSE Some([statusCode |-> 200,
                                           body |-> [alert |-> alert.message,
                                                     analysis |-> analysis,
                                                     model |-> "gemini-2.5-flash",
                                                     context_gathered |-> Len(context_text) > 0]])
    /\ UNCHANGED <<alert, context, exc, context_text, infra_context, event, services>>

Next ==
    \/ GatherStart
    \/ CallRecentLogs
    \/ CallCompute
    \/ CallLoadBalancer
    \/ CallRecentChanges
    \/ CallMetrics
    \/ CallResourceTags
    \/ HandlerFormat
    \/ HandlerCatch
    \/ Distribute

Spec == Init /\ [][Next]_vars

(***************************************************************************)
(* lambda_handler on an event of several records.  event.Records are the   *)
(* alerts that the bodies of the records hold, event.taken the number of   *)
(* records that the for statement has taken.                               *)
(***************************************************************************)
MaxRecords == 2

NoAlert ==
    [has_group |-> FALSE, has_stream |-> FALSE, log_group |-> "", log_stream |-> "",
     message |-> ""]

\* the alerts of the records: one of no known kind, one of a serverless
\* function, one without a stream
HandlerAlerts ==
    {[has_group |-> TRUE, has_stream |-> TRUE, log_group |-> "/app/misc",
      log_stream |-> "stream-1", message |-> "disk full on /dev/sda1"],
     [has_group |-> TRUE, has_stream |-> TRUE, log_group |-> "/aws/lambda/my-func",
      log_stream |-> "2026/11/03/[$LATEST]" \o HexRun(TaskIdLen - 1), message |-> "timeout"],
     [has_group |-> TRUE, has_stream |-> FALSE, log_group |-> "/ecs/my-cluster/service",
      log_stream |-> "", message |-> "unhealthy target"]}

InitHandler ==
    /\ event \in {[Records |-> records, taken |-> 0] :
                    records \in UNION {[1..n -> HandlerAlerts] : n \in 0..MaxRecords}}
    /\ alert = NoAlert
    /\ pc = "handler"
    /\ context = EmptyContext
    /\ calls = <<>>
    /\ exc = None
    /\ context_text = ""
    /\ infra_context = None
    /\ sent = <<>>
    /\ services = None
    /\ result = None

\* the API key is read from the parameter store before the loop, outside
\* any try
HandlerStart ==
    /\ pc = "handler"
    /\ \E o \in SendOutcomes :
          /\ calls' = Append(calls, [fn |-> "ssm.get_parameter", args |-> <<>>, backend |-> <<o>>,
                                     raised |-> IF o = "raise" THEN Some("ClientError") ELSE None])
          /\ pc' = IF o = "raise" THEN "unhandled" ELSE "records"
    /\ UNCHANGED <<alert, context, exc, context_text, infra_context, sent, event, services, result>>

\* mutant: the return moved out of the loop, so that the for statement
\* takes the next record after each one
NextRecord_after_each_record ==
    /\ pc \in {"records", "done"}
    /\ IF event.taken < Len(event.Records)
       THEN /\ alert' = event.Records[event.taken + 1]
            /\ event' = [event EXCEPT !.taken = @ + 1]
            /\ pc' = "start"
            /\ result' = result
       ELSE /\ pc' = "no_records"
            /\ result' = Some([statusCode |-> 200, body |-> "No records processed"])
            /\ UNCHANGED <<alert, event>>
    /\ context' = EmptyContext
    /\ exc' = None
    /\ context_text' = ""
    /\ infra_context' = None
    /\ UNCHANGED <<calls, sent, services>>

\* for record in event.get('Records', []): the next record is taken and its
\* body is the alert; when there is none left the loop ends and the handler
\* returns 'No records processed'.  The statement is reached once, before
\* the first record: the body of the loop ends with a return.
NextRecord ==
    /\ pc = "records"
    /\ IF event.taken < Len(event.Records)
       THEN /\ alert' = event.Records[event.taken + 1]
            /\ event' = [event EXCEPT !.taken = @ + 1]
            /\ pc' = "start"
            /\ result' = result
       ELSE /\ pc' = "no_records"
            /\ result' = Some([statusCode |-> 200, body |-> "No records processed"])
            /\ UNCHANGED <<alert, event>>
    /\ context' = EmptyContext
    /\ exc' = None
    /\ context_text' = ""
    /\ infra_context' = None
    /\ UNCHANGED <<calls, sent, services>>

NextHandler ==
    \/ HandlerStart
    \/ NextRecord
    \/ GatherStart
    \/ CallRecentLogs
    \/ CallCompute
    \/ CallLoadBalancer
    \/ CallRecentChanges
    \/ CallMetrics
    \/ CallResourceTags
    \/ HandlerFormat
    \/ HandlerCatch
    \/ Distribute

SpecHandler == InitHandler /\ [][NextHandler]_vars

(***************************************************************************)
(* format_context_for_prompt on its own: contexts with as many entries as  *)
(* the clients can store, rendered twice                                   *)
(***************************************************************************)
MaxLogs == 12

MaxChanges == 7

MaxWidth == 560

Filler == HexSource \o HexSource \o HexSource \o HexSource \o HexSource \o HexSource \o HexSource

\* n events one second apart, the i-th with a message of w characters that
\* starts with its number
StoredLogs(n, w) ==
    PyList([i \in 1..n |-> LogEntry(3723004 + 1000 * i, Prefix("m" \o Pad2(i) \o ":" \o Filler, w))])

StoredChanges(k) ==
    PyList([i \in 1..k |->
              StackChange("stack-" \o ToString(i), "UPDATE_COMPLETE",
                          IF i % 2 = 1 THEN <<>>
                          ELSE <<[resource |-> "Res" \o ToString(i), status |-> "CREATE_FAILED",
                                  reason |-> "limit"]>>)])

LogCounts == {0, 1, LogLinesCap, LogLinesCap + 1, MaxLogs}

LogWidths == {5, LogLineWidth, LogLineWidth + 1, MaxWidth}

ChangeCounts == {0, 1, ChangesCap, ChangesCap + 1, MaxChanges}

FormatLocators ==
    {Some(extract_log_context(in[1], in[2], in[3])) : in \in
        {<<"/ecs/my-cluster/service", "web/" \o HexRun(TaskIdLen),
           "kubernetes pod_name: web-1 node_name: ip-10-0-1-5 container_id: "
               \o HexRun(ContainerIdMin + 4)>>,
         <<"/app/misc", "stream-1", "disk full on /dev/sda1">>}} \cup {None}

StoredEc2 == {None, Some(PyNone), Some(get_ec2_instance_status("i-" \o HexRun(InstanceIdMin), "ok").value)}

StoredEcs ==
    {None, Some(PyNone), Some(get_ecs_task_health(HexRun(TaskIdLen), None, "ok", <<"ok">>).value)}

StoredLoadBalancers ==
    {PyDict(<<>>), PyNone, get_alb_target_health("app/my-alb/" \o HexRun(AlbHexLen), "ok").value}

StoredMetrics ==
    {PyDict(<<>>), get_cloudwatch_metrics("/app/misc", <<>>).value,
     get_cloudwatch_metrics("/ecs/my-cluster/service", Answers(<<"ok", "empty">>)).value,
     get_cloudwatch_metrics("/aws/lambda/my-func", Answers(<<"ok", "ok", "ok">>)).value}

StoredTags == {PyDict(<<>>), get_resource_tags("i-" \o HexRun(InstanceIdMin), "ec2", "ok").value}

\* contexts at and beyond the caps, every other section present
CappedContexts ==
    {[log_context |-> Some(extract_log_context("/app/misc", "stream-1", "")),
      recent_logs |-> Some(StoredLogs(n, w)),
      compute |-> [ecs |-> None, ec2 |-> Some(PyNone)],
      load_balancers |-> PyDict(<<>>),
      recent_changes |-> StoredChanges(k),
      metrics |-> get_cloudwatch_metrics("/app/misc", <<>>).value,
      resource_tags |-> PyDict(<<>>)] :
        n \in LogCounts, w \in LogWidths, k \in ChangeCounts}

\* contexts with every section there or not
SectionContexts ==
    {[log_context |-> lc, recent_logs |-> logs, compute |-> [ecs |-> ecs, ec2 |-> ec2],
      load_balancers |-> lb, recent_changes |-> ch, metrics |-> me, resource_tags |-> tags] :
        lc \in FormatLocators, logs \in {None, Some(StoredLogs(0, 5)), Some(StoredLogs(2, 5))},
        ecs \in StoredEcs, ec2 \in StoredEc2, lb \in StoredLoadBalancers,
        ch \in {PyDict(<<>>), StoredChanges(0), StoredChanges(2)},
        me \in StoredMetrics, tags \in StoredTags}

FormatContexts == CappedContexts \cup SectionContexts

InitFormat ==
    /\ alert = [has_group |-> FALSE, has_stream |-> FALSE, log_group |-> "",
                log_stream |-> "", message |-> ""]
    /\ pc = "context"
    /\ context \in FormatContexts
    /\ calls = <<>>
    /\ exc = None
    /\ context_text = ""
    /\ infra_context = None
    /\ sent = <<>>
    /\ event = None
    /\ services = None
    /\ result = None

\* context_text = format_context_for_prompt(context)
Format ==
    /\ pc = "context"
    /\ context_text' = format_context_for_prompt(context)
    /\ pc' = "formatted"
    /\ UNCHANGED <<alert, context, calls, exc, infra_context, sent, event, services, result>>

\* the same call once more, on what the first call left
FormatAgain ==
    /\ pc = "formatted"
    /\ context_text' = format_context_for_prompt(context)
    /\ pc' = "formatted_again"
    /\ UNCHANGED <<alert, context, calls, exc, infra_context, sent, event, services, result>>

NextFormat ==
    \/ Format
    \/ FormatAgain

SpecFormat == InitFormat /\ [][NextFormat]_vars

(***************************************************************************)
(* The clients on their own, each applied to what its service holds.       *)
(* services is what the backing service holds and how it answers; result   *)
(* is what the client returns.                                             *)
(***************************************************************************)
MaxEvents == 80

LookbackMinutes == 10

LogEventsLimit == 50

\* the time of the call, in milliseconds
Now == 864000000

\* start_time of get_recent_logs: ten minutes before the call, in milliseconds
start_time(now, lookback_minutes) == now - lookback_minutes * 60 * 1000

\* the indices of stream (events in the order written) at or after startTime
InWindow(stream, startTime) == {i \in 1..Len(stream) : stream[i].timestamp >= startTime}

RECURSIVE Ascending(_, _)
\* the events of stream at the indices I, oldest first
Ascending(stream, I) ==
    IF I = {} THEN <<>>
    ELSE LET i == CHOOSE x \in I : \A y \in I : x <= y
         IN  <<stream[i]>> \o Ascending(stream, I \ {i})

Reverse(seq) == [i \in 1..Len(seq) |-> seq[Len(seq) + 1 - i]]

\* GetLogEvents of CloudWatch Logs for the request the client makes
\* (startTime, limit, startFromHead, no endTime and no token): one page of at
\* most limit events at or after startTime, taken from the end of the stream
\* unless startFromHead.  The request does not say in which order the events
\* of the page are listed, and the client keeps the order it is given:
\* page_order is the service's (GetLogEvents lists a page oldest first).
get_log_events(stream, startTime, limit, startFromHead, page_order) ==
    LET I    == InWindow(stream, startTime)
        n    == Cardinality(I)
        kept == IF n <= limit THEN I
                ELSE IF startFromHead
                THEN {i \in I : Cardinality({j \in I : j < i}) < limit}
                ELSE {i \in I : Cardinality({j \in I : j > i}) < limit}
        page == Ascending(stream, kept)
    IN  IF page_order = "oldest_first" THEN page ELSE Reverse(page)

\* a stream of n events gap milliseconds apart, the last one written at the
\* time of the call, the i-th with a message of w characters that starts with
\* its number
Stream(n, gap, w) ==
    [i \in 1..n |-> [timestamp |-> Now - (n - i) * gap,
                     message |-> Prefix("m" \o Pad2(i) \o ":" \o Filler, w)]]

EventCounts == {0, 1, LogEventsLimit - 1, LogEventsLimit, LogEventsLimit + 1, MaxEvents}

EventGaps == {5000, 10000, 60000}

EventWidths == {0, 1, MessageCap, MessageCap + 1, MaxWidth}

LogWorlds ==
    {[service |-> "logs", stream |-> Stream(n, gap, w), page_order |-> o] :
        n \in EventCounts, gap \in EventGaps, w \in EventWidths,
        o \in {"oldest_first", "newest_first"}}

MaxKnownClusters == 4

\* what the container service does for a task: listed is what list_clusters
\* does, probes[k] what describe_tasks does on the k-th cluster it names
EcsWorlds ==
    {[service |-> "ecs", listed |-> listed, probes |-> probes] :
        listed \in Outcomes,
        probes \in UNION {[1..n -> Outcomes] : n \in 0..MaxKnownClusters}}

MaxStacks == 3

LookbackHours == 24

\* StackStatusFilter of the list_stacks request
StackStatusFilter ==
    {"CREATE_COMPLETE", "UPDATE_COMPLETE", "UPDATE_ROLLBACK_COMPLETE", "ROLLBACK_COMPLETE"}

RECURSIVE list_stacks(_, _)
\* list_stacks: the summaries of the stacks whose status the filter names
list_stacks(stacks, filter) ==
    IF stacks = <<>> THEN <<>>
    ELSE (IF Head(stacks).StackStatus \in filter THEN <<Head(stacks)>> ELSE <<>>)
             \o list_stacks(Tail(stacks), filter)

\* datetime.utcnow() - timedelta(hours=lookback_hours), in seconds
cutoff_time(now, lookback_hours) == now - lookback_hours * 3600

\* stack_summary.get('LastUpdatedTime') or stack_summary.get('CreationTime')
last_updated(stack_summary) ==
    IF stack_summary.LastUpdatedTime # None THEN stack_summary.LastUpdatedTime[1]
    ELSE stack_summary.CreationTime

\* mutant: every event of the stack counted as recent
recent_events_of_any_age(events, cutoff) == events

RECURSIVE recent_events(_, _)
\* the events of the describe_stack_events answer later than the cutoff
recent_events(events, cutoff) ==
    IF events = <<>> THEN <<>>
    ELSE (IF Head(events).Timestamp > cutoff THEN <<Head(events)>> ELSE <<>>)
             \o recent_events(Tail(events), cutoff)

RECURSIVE failed_resources(_)
\* the recent events with 'FAILED' in their status
failed_resources(recent) ==
    IF recent = <<>> THEN <<>>
    ELSE (IF Contains("FAILED", Head(recent).ResourceStatus)
          THEN <<[resource |-> Head(recent).LogicalResourceId,
                  status |-> Head(recent).ResourceStatus,
                  reason |-> Head(recent).ResourceStatusReason]>>
          ELSE <<>>)
             \o failed_resources(Tail(recent))

\* str() of a time of January 1970 (seconds, UTC), as of an aware datetime
str_datetime(t) ==
    "1970-01-" \o Pad2(t \div 86400 + 1) \o " " \o strftime((t % 86400) * 1000) \o "+00:00"

RECURSIVE ScanStacks(_, _)
\* the for loop over the stack summaries: a stack updated after the cutoff
\* has its events read and is kept if any of them is recent
ScanStacks(summaries, cutoff) ==
    IF summaries = <<>> THEN <<>>
    ELSE LET stack_summary == Head(summaries)
             recent == recent_events(stack_summary.StackEvents, cutoff)
         IN  (IF last_updated(stack_summary) > cutoff /\ recent # <<>>
              THEN <<[stack_name |-> stack_summary.StackName,
                      status |-> stack_summary.StackStatus,
                      last_updated |-> str_datetime(last_updated(stack_summary)),
                      recent_events_count |-> Len(recent),
                      failed_resources |-> failed_resources(recent)]>>
              ELSE <<>>)
                 \o ScanStacks(Tail(summaries), cutoff)

\* a stack as CloudFormation holds it: created and updated so many hours
\* before the call (never updated: updated < 0), with the events of its
\* creation and of its last update, newest first; failing says that the
\* operation of that time had a resource fail
StackEvent(t, resource, status, reason) ==
    [Timestamp |-> t, LogicalResourceId |-> resource, ResourceStatus |-> status,
     ResourceStatusReason |-> reason]

StackHeld(name, status, created, updated, create_failing, update_failing) ==
    LET now == Now \div 1000
        tc  == now - created * 3600
        tu  == now - updated * 3600
        creation == (IF create_failing
                     THEN <<StackEvent(tc + 50, "Queue", "CREATE_FAILED", "limit exceeded")>>
                     ELSE <<>>)
                    \o <<StackEvent(tc + 40, "WebService", "CREATE_COMPLETE", ""),
                         StackEvent(tc, name, "CREATE_IN_PROGRESS", "User Initiated")>>
        update   == IF updated < 0 THEN <<>>
                    ELSE (IF update_failing
                          THEN <<StackEvent(tu + 90, "Database", "UPDATE_COMPLETE", ""),
                                 StackEvent(tu + 60, "WebService", "UPDATE_FAILED", "timed out")>>
                          ELSE <<StackEvent(tu + 60, "WebService", "UPDATE_COMPLETE", "")>>)
                         \o <<StackEvent(tu, name, "UPDATE_IN_PROGRESS", "User Initiated")>>
    IN  [StackName |-> name, StackStatus |-> status, CreationTime |-> tc,
         LastUpdatedTime |-> IF updated < 0 THEN None ELSE Some(tu),
         StackEvents |-> update \o creation]

\* <<status, created, updated, create_failing, update_failing>>
StackShapes ==
    {<<"CREATE_COMPLETE", 1, -1, FALSE, FALSE>>,
     <<"CREATE_COMPLETE", 23, -1, FALSE, FALSE>>,
     <<"CREATE_COMPLETE", 72, -1, FALSE, FALSE>>,
     <<"ROLLBACK_COMPLETE", 4, -1, TRUE, FALSE>>,
     <<"UPDATE_COMPLETE", 72, 2, FALSE, FALSE>>,
     <<"UPDATE_COMPLETE", 72, 24, FALSE, FALSE>>,
     <<"UPDATE_COMPLETE", 72, 30, TRUE, FALSE>>,
     <<"UPDATE_ROLLBACK_COMPLETE", 72, 3, TRUE, TRUE>>,
     <<"UPDATE_IN_PROGRESS", 72, 0, FALSE, FALSE>>,
     <<"UPDATE_ROLLBACK_FAILED", 72, 5, FALSE, TRUE>>}

StackWorlds ==
    {[service |-> "cloudformation",
      stacks |-> [i \in 1..Len(shapes) |-> StackHeld("stack-" \o ToString(i), shapes[i][1], shapes[i][2],
                                           shapes[i][3], shapes[i][4], shapes[i][5])]] :
        shapes \in UNION {[1..n -> StackShapes] : n \in 0..MaxStacks}}

MetricsLookbackMinutes == 30

Period == 300

\* n datapoints one period apart, the j-th of the answer being the
\* ((j + shift) % n)-th in time
Series(n, shift) ==
    [j \in 1..n |-> Datapoint(Period * ((j + shift) % n), n * (10 * ((j * 7) % 5) + 5))]

MetricAnswers ==
    {MetricAnswer("ok", Series(n, shift)) :
        n \in 1..((MetricsLookbackMinutes * 60) \div Period), shift \in 0..2}
      \cup {MetricAnswer(o, <<>>) : o \in Outcomes \ {"ok"}}

\* what CloudWatch does for the metrics of a log group: answers[k] is its
\* answer to the k-th query made
MetricWorlds ==
    {[service |-> "cloudwatch", log_group |-> g, answers |-> a] :
        g \in {"/aws/lambda/my-func", "/custom/lambda/fn", "/ecs/my-cluster/service",
               "/ecs/c1/lambda/ec2", "/app/misc"},
        a \in [1..3 -> MetricAnswers]}

ClientWorlds ==
    LogWorlds \cup {w \in EcsWorlds : w.listed # "ok" => w.probes = <<>>} \cup StackWorlds
        \cup MetricWorlds

InitClients ==
    /\ alert = [has_group |-> TRUE, has_stream |-> TRUE, log_group |-> "/app/misc",
                log_stream |-> "stream-1", message |-> ""]
    /\ pc = "client"
    /\ context = EmptyContext
    /\ calls = <<>>
    /\ exc = None
    /\ context_text = ""
    /\ infra_context = None
    /\ sent = <<>>
    /\ event = None
    /\ services \in ClientWorlds
    /\ result = None

\* get_recent_logs(log_group, log_stream, lookback_minutes=10) when the
\* service answers
ClientRecentLogs ==
    /\ pc = "client"
    /\ services.service = "logs"
    /\ result' = PyList(RecentLogs(get_log_events(services.stream,
                                                  start_time(Now, LookbackMinutes),
                                                  LogEventsLimit, FALSE,
                                                  services.page_order)))
    /\ pc' = "recent_logs"
    /\ UNCHANGED <<alert, context, calls, exc, context_text, infra_context, sent, event, services>>

\* get_ecs_task_health(task_id): the cluster is not named
ClientTaskHealth ==
    /\ pc = "client"
    /\ services.service = "ecs"
    /\ result' = get_ecs_task_health(HexRun(TaskIdLen), None, services.listed, services.probes)
    /\ pc' = "task_health"
    /\ UNCHANGED <<alert, context, calls, exc, context_text, infra_context, sent, event, services>>

\* get_recent_cloudformation_changes(lookback_hours=24) when the service
\* answers
ClientRecentChanges ==
    /\ pc = "client"
    /\ services.service = "cloudformation"
    /\ result' = PyList(ScanStacks(list_stacks(services.stacks, StackStatusFilter),
                                   cutoff_time(Now \div 1000, LookbackHours)))
    /\ pc' = "stack_changes"
    /\ UNCHANGED <<alert, context, calls, exc, context_text, infra_context, sent, event, services>>

\* get_cloudwatch_metrics(log_group, lookback_minutes=30)
ClientMetrics ==
    /\ pc = "client"
    /\ services.service = "cloudwatch"
    /\ result' = get_cloudwatch_metrics(services.log_group, services.answers)
    /\ pc' = "cloudwatch_metrics"
    /\ UNCHANGED <<alert, context, calls, exc, context_text, infra_context, sent, event, services>>

NextClients ==
    \/ ClientRecentLogs
    \/ ClientTaskHealth
    \/ ClientRecentChanges
    \/ ClientMetrics

SpecClients == InitClients /\ [][NextClients]_vars

(***************************************************************************)
(* The Slack interactions handler.  event is the request: its headers (a   *)
(* dict of header values, None, or no key at all), its body and whether    *)
(* the body is base64.  services holds what the environment and the        *)
(* secrets manager answer.  A header value is its text; a signature made   *)
(* with HMAC-SHA256 carries, after the text 'v0=', the key and the message *)
(* it was made of (two digests are equal exactly when both are).           *)
(***************************************************************************)
HeaderValue(text) == [text |-> text, mac |-> None, ascii |-> TRUE]

\* 'v0=' + hmac.new(key, msg, sha256).hexdigest()
Signature(key, msg) == [text |-> "v0=", mac |-> Some(<<key, msg>>), ascii |-> TRUE]

\* a header value with a character outside ASCII
NonAsciiValue == [text |-> "v0=", mac |-> None, ascii |-> FALSE]

\* time.time(), in milliseconds: a clock reading between two seconds
TimeNow == 1000500

\* 60 * 5 seconds
ReplayWindow == 300

Abs(n) == IF n < 0 THEN 0 - n ELSE n

WhiteSpace == {" ", "\t", "\n"}

RECURSIVE strip_left(_)
strip_left(s) ==
    IF s # "" /\ SubSeq(s, 1, 1) \in WhiteSpace THEN strip_left(SubSeq(s, 2, Len(s))) ELSE s

RECURSIVE strip_right(_)
strip_right(s) ==
    IF s # "" /\ SubSeq(s, Len(s), Len(s)) \in WhiteSpace
    THEN strip_right(SubSeq(s, 1, Len(s) - 1)) ELSE s

RECURSIVE DecimalValue(_)
DecimalValue(s) ==
    IF s = "" THEN 0
    ELSE 10 * DecimalValue(SubSeq(s, 1, Len(s) - 1))
         + (CHOOSE d \in 0..9 : ToString(d) = SubSeq(s, Len(s), Len(s)))

\* int(text) of a str: white space around an optional sign and decimal
\* digits; None stands for the ValueError of every other text
int(text) ==
    LET t == strip_right(strip_left(text))
        signed == t # "" /\ SubSeq(t, 1, 1) \in {"+", "-"}
        digits == IF signed THEN SubSeq(t, 2, Len(t)) ELSE t
    IN  IF digits = "" \/ \E i \in 1..Len(digits) : SubSeq(digits, i, i) \notin Digits
        THEN None
        ELSE Some(IF signed /\ SubSeq(t, 1, 1) = "-" THEN 0 - DecimalValue(digits)
                  ELSE DecimalValue(digits))

\* the secret strings the secrets manager may hold
SecretStrings ==
    {"{\"signing_secret\": \"8f74\"}", "sk-8f74", "12345", "{\"token\": \"x\"}"}

\* json.loads(response['SecretString']) and secret_data.get('signing_secret'),
\* with the JSONDecodeError fallback to the string itself: "key" when a str
\* is found, "none" when the dict has no such key, "raise" when the JSON is
\* not a dict and has no get
signing_secret(secret_string) ==
    CASE secret_string = "{\"signing_secret\": \"8f74\"}" -> [t |-> "key", v |-> "8f74"]
      [] secret_string = "sk-8f74" -> [t |-> "key", v |-> "sk-8f74"]
      [] secret_string = "12345" -> [t |-> "raise", v |-> ""]
      [] secret_string = "{\"token\": \"x\"}" -> [t |-> "none", v |-> ""]

\* {k.lower(): v for k, v in headers.items()}.get(name): the value of the
\* last item whose key is name in any case
HeaderGet(headers, name) ==
    LET hits == {i \in DOMAIN headers.v : Lower(headers.v[i].k) = name}
    IN  IF hits = {} THEN None
        ELSE Some(headers.v[CHOOSE i \in hits : \A j \in hits : j <= i].x)

\* verify_slack_request: ok is what it returns, fetched whether the secrets
\* manager was asked.  Every exception inside is caught and answered True:
\* a failed or binary secret, a secret that is JSON but no dict, headers
\* that are None, a timestamp that is no integer, a secret without the key
\* (None has no encode), a signature outside ASCII (compare_digest refuses)
verify_slack_request(request, env) ==
    IF env.SLACK_SIGNING_SECRET = None THEN [ok |-> TRUE, fetched |-> FALSE]
    ELSE IF env.secret.t # "string" THEN [ok |-> TRUE, fetched |-> TRUE]
    ELSE LET secret == signing_secret(env.secret.s) IN
    IF secret.t = "raise" THEN [ok |-> TRUE, fetched |-> TRUE]
    ELSE LET headers == IF request.headers = None THEN PyDict(<<>>) ELSE request.headers[1] IN
    IF headers.t # "dict" THEN [ok |-> TRUE, fetched |-> TRUE]
    ELSE LET slack_signature == HeaderGet(headers, "x-slack-signature")
             slack_timestamp == HeaderGet(headers, "x-slack-request-timestamp") IN
    IF \/ slack_signature = None \/ (slack_signature[1].text = "" /\ slack_signature[1].ascii)
       \/ slack_timestamp = None \/ (slack_timestamp[1].text = "" /\ slack_timestamp[1].ascii)
    THEN [ok |-> FALSE, fetched |-> TRUE]
    ELSE IF int(slack_timestamp[1].text) = None THEN [ok |-> TRUE, fetched |-> TRUE]
    ELSE IF Abs(TimeNow - 1000 * int(slack_timestamp[1].text)[1]) > 1000 * ReplayWindow
    THEN [ok |-> FALSE, fetched |-> TRUE]
    ELSE IF secret.t = "none" THEN [ok |-> TRUE, fetched |-> TRUE]
    ELSE LET sig_basestring == "v0:" \o slack_timestamp[1].text \o ":" \o request.body
             my_signature == Signature(secret.v, sig_basestring) IN
    IF ~slack_signature[1].ascii THEN [ok |-> TRUE, fetched |-> TRUE]
    ELSE [ok |-> my_signature = slack_signature[1], fetched |-> TRUE]

CreateJiraBody ==
    "payload=%7B%22type%22%3A%22block_actions%22%2C%22actions%22%"
    \o "3A%5B%7B%22action_id%22%3A%22create_jira%22%2C%22value%22%3A"
    \o "%22a1%22%7D%5D%2C%22user%22%3A%7B%22name%22%3A%22dana%22%7D%"
    \o "2C%22response_url%22%3A%22https%3A%2F%2Fs.test%2Fr%22%7D"

AcknowledgeBody ==
    "payload=%7B%22type%22%3A%22block_actions%22%2C%22actions%22%"
    \o "3A%5B%7B%22action_id%22%3A%22acknowledge_alert%22%2C%22value"
    \o "%22%3A%22a1%22%7D%5D%2C%22user%22%3A%7B%22name%22%3A%22dana%"
    \o "22%7D%2C%22response_url%22%3A%22https%3A%2F%2Fs.test%2Fr%22%"
    \o "7D"

SnoozeBody ==
    "payload=%7B%22type%22%3A%22block_actions%22%2C%22actions%22%"
    \o "3A%5B%7B%22action_id%22%3A%22snooze%22%2C%22value%22%3A%22a1"
    \o "%22%7D%5D%2C%22user%22%3A%7B%22name%22%3A%22dana%22%7D%2C%22"
    \o "response_url%22%3A%22https%3A%2F%2Fs.test%2Fr%22%7D"

UrlVerificationBody ==
    "payload=%7B%22type%22%3A%22url_verification%22%2C%22challeng"
    \o "e%22%3A%22c1%22%7D"

ViewSubmissionBody ==
    "payload=%7B%22type%22%3A%22view_submission%22%7D"

NoActionsBody ==
    "payload=%7B%22type%22%3A%22block_actions%22%2C%22actions%22%"
    \o "3A%5B%5D%7D"

NoUserBody ==
    "payload=%7B%22type%22%3A%22block_actions%22%2C%22actions%22%"
    \o "3A%5B%7B%22action_id%22%3A%22create_jira%22%2C%22value%22%3A"
    \o "%22a1%22%7D%5D%2C%22response_url%22%3A%22https%3A%2F%2Fs.tes"
    \o "t%2Fr%22%7D"

BadJsonBody ==
    "payload=%7Bnot-json"

Base64Body ==
    "cGF5bG9hZD0lN0IlMjJ0eXBlJTIyJTNBJTIyYmxvY2tfYWN0aW9ucyUyMiUy"
    \o "QyUyMmFjdGlvbnMlMjIlM0ElNUIlN0IlMjJhY3Rpb25faWQlMjIlM0ElMjJh"
    \o "Y2tub3dsZWRnZV9hbGVydCUyMiUyQyUyMnZhbHVlJTIyJTNBJTIyYTElMjIl"
    \o "N0QlNUQlMkMlMjJ1c2VyJTIyJTNBJTdCJTIybmFtZSUyMiUzQSUyMmRhbmEl"
    \o "MjIlN0QlMkMlMjJyZXNwb25zZV91cmwlMjIlM0ElMjJodHRwcyUzQSUyRiUy"
    \o "RnMudGVzdCUyRnIlMjIlN0Q="

\* what the request bodies of the model parse to: parse_qs(body).get('payload',
\* ['{}'])[0] and json.loads of it.  ok is FALSE when json.loads raises;
\* type, user and response_url are the keys of the payload when it has them,
\* actions the list under 'actions'
NoPayload ==
    [ok |-> TRUE, type |-> None, actions |-> <<>>, user |-> None, response_url |-> None,
     challenge |-> None]

BlockActions(action_id, user) ==
    [NoPayload EXCEPT !.type = Some("block_actions"),
                      !.actions = <<[action_id |-> action_id, value |-> "a1"]>>,
                      !.user = user,
                      !.response_url = Some("https://s.test/r")]

payload_of(body) ==
    CASE body = "" -> NoPayload
      [] body = CreateJiraBody -> BlockActions("create_jira", Some("dana"))
      [] body = AcknowledgeBody -> BlockActions("acknowledge_alert", Some("dana"))
      [] body = SnoozeBody -> BlockActions("snooze", Some("dana"))
      [] body = NoUserBody -> BlockActions("create_jira", None)
      [] body = NoActionsBody -> [NoPayload EXCEPT !.type = Some("block_actions")]
      [] body = UrlVerificationBody ->
            [NoPayload EXCEPT !.type = Some("url_verification"), !.challenge = Some("c1")]
      [] body = ViewSubmissionBody -> [NoPayload EXCEPT !.type = Some("view_submission")]
      [] body = BadJsonBody -> [NoPayload EXCEPT !.ok = FALSE]

\* base64.b64decode(body).decode('utf-8')
b64decode(body) == IF body = Base64Body THEN AcknowledgeBody ELSE ""

RequestBodies ==
    {"", CreateJiraBody, AcknowledgeBody, SnoozeBody, NoUserBody, NoActionsBody,
     UrlVerificationBody, ViewSubmissionBody, BadJsonBody, Base64Body}

TimestampTexts == {"", "abc", "700", "701", "1000", " 1000 ", "1300", "1301"}

\* the signatures a request may carry: Slack's own, one made with another
\* key, one made of another body, and values that are no digest
SignaturesOf(timestamp, body) ==
    {Signature("8f74", "v0:" \o timestamp \o ":" \o body),
     Signature("sk-8f74", "v0:" \o timestamp \o ":" \o body),
     Signature("0000", "v0:" \o timestamp \o ":" \o body),
     Signature("8f74", "v0:" \o timestamp \o ":"),
     HeaderValue("v0=deadbeef"), HeaderValue(""), NonAsciiValue}

HeadersOf(body) ==
    {None, Some(PyNone), Some(PyDict(<<>>))}
    \cup {Some(PyDict(<<Entry("X-Slack-Request-Timestamp", HeaderValue(t))>>)) :
             t \in TimestampTexts}
    \cup {Some(PyDict(<<Entry("X-Slack-Signature", s)>>)) : s \in SignaturesOf("1000", body)}
    \cup UNION {{Some(PyDict(<<Entry(names[1], s), Entry(names[2], HeaderValue(t))>>)) :
                    names \in {<<"X-Slack-Signature", "X-Slack-Request-Timestamp">>,
                               <<"x-slack-signature", "x-slack-request-timestamp">>},
                    s \in SignaturesOf(t, body)} : t \in TimestampTexts}

SlackEvents ==
    UNION {{[headers |-> h, body |-> b, isBase64Encoded |-> b = Base64Body] :
              h \in HeadersOf(b)} : b \in RequestBodies}

\* os.environ.get('SLACK_SIGNING_SECRET') and what get_secret_value answers:
\* a SecretString, a binary secret (no 'SecretString'), or an exception
SecretWorlds ==
    {[SLACK_SIGNING_SECRET |-> None, secret |-> [t |-> "raise", s |-> ""]]}
    \cup {[SLACK_SIGNING_SECRET |-> Some("slack/signing"), secret |-> x] :
             x \in {[t |-> "raise", s |-> ""], [t |-> "binary", s |-> ""]}
                   \cup {[t |-> "string", s |-> s] : s \in SecretStrings}}

InitSlack ==
    /\ event \in {Some(e) : e \in SlackEvents}
    /\ services \in {Some(w) : w \in SecretWorlds}
    /\ pc = "request"
    /\ alert = NoAlert
    /\ context = EmptyContext
    /\ calls = <<>>
    /\ exc = None
    /\ context_text = ""
    /\ infra_context = None
    /\ sent = <<>>
    /\ result = None

SideEffect(fn, arg, outcome) ==
    [fn |-> fn, args |-> <<arg>>, backend |-> <<outcome>>,
     raised |-> IF outcome = "raise" THEN Some("Exception") ELSE None]

\* mutant: a failed verification is logged and the request handled all the same
VerifyRequest_log_only ==
    /\ pc = "request"
    /\ LET verified == verify_slack_request(event[1], services[1])
       IN  /\ calls' = IF verified.fetched
                       THEN Append(calls, SideEffect("secretsmanager.get_secret_value",
                                                     services[1].SLACK_SIGNING_SECRET[1],
                                                     services[1].secret.t))
                       ELSE calls
           /\ pc' = "accepted"
           /\ result' = result
    /\ UNCHANGED <<alert, context, exc, context_text, infra_context, sent, event, services>>

\* lambda_handler up to the verification: 403 when verify_slack_request
\* answers False
VerifyRequest ==
    /\ pc = "request"
    /\ LET verified == verify_slack_request(event[1], services[1])
       IN  /\ calls' = IF verified.fetched
                       THEN Append(calls, SideEffect("secretsmanager.get_secret_value",
                                                     services[1].SLACK_SIGNING_SECRET[1],
                                                     services[1].secret.t))
                       ELSE calls
           /\ pc' = IF verified.ok THEN "accepted" ELSE "forbidden"
           /\ result' = IF verified.ok THEN result
                        ELSE Some([statusCode |-> 403,
                                   body |-> "{\"error\": \"Invalid request signature\"}"])
    /\ UNCHANGED <<alert, context, exc, context_text, infra_context, sent, event, services>>

\* the body as parsed: decoded first when the event says it is base64
ParsedPayload ==
    payload_of(IF event[1].isBase64Encoded THEN b64decode(event[1].body) ELSE event[1].body)

\* the payload is parsed and the interaction dispatched on its type and on
\* the action_id of its first action; an interaction that is no known
\* button click is answered 200 at once.  json.loads and payload['actions'][0]
\* are not inside a try
ParsePayload ==
    /\ pc = "accepted"
    /\ LET payload == ParsedPayload
       IN  IF ~payload.ok THEN pc' = "unhandled" /\ result' = result
           ELSE IF payload.type = Some("block_actions")
           THEN IF payload.actions = <<>> THEN pc' = "unhandled" /\ result' = result
                ELSE IF payload.actions[1].action_id = "create_jira"
                THEN pc' = "create_jira" /\ result' = result
                ELSE IF payload.actions[1].action_id = "acknowledge_alert"
                THEN pc' = "acknowledge" /\ result' = result
                ELSE pc' = "answered" /\ result' = Some([statusCode |-> 200, body |-> ""])
           ELSE IF payload.type = Some("url_verification")
           THEN /\ pc' = "answered"
                /\ result' = Some([statusCode |-> 200,
                                   body |-> "{\"challenge\": \"" \o payload.challenge[1] \o "\"}"])
           ELSE pc' = "answered" /\ result' = Some([statusCode |-> 200, body |-> ""])
    /\ UNCHANGED <<alert, context, calls, exc, context_text, infra_context, sent, event, services>>

DynamoOutcomes == {"item", "no_item", "raise"}

UpdateOutcomes == {"200", "500", "raise"}

\* update_slack_message: one POST to the response_url, whose failure is
\* caught
update_slack_message(response_url, text, outcome) ==
    <<SideEffect("http.request", <<response_url, text>>, outcome)>>

\* get_alert_from_dynamodb, send_to_jira_queue and update_slack_message as
\* handle_create_jira calls them: the read is made when the table is
\* configured (Table(None) raises, which is caught), the message is sent
\* when a truthy item came back and the queue is configured, and the Slack
\* message is updated in every case
CreateJiraCalls(payload, table, d, queue, q, u) ==
    LET alert_id == payload.actions[1].value
        read == IF table = None THEN <<>>
                ELSE <<SideEffect("dynamodb.get_item", alert_id, d)>>
        found == table # None /\ d = "item"
        send == IF found /\ queue # None
                THEN <<SideEffect("sqs.send_message", alert_id, q)>> ELSE <<>>
        success == found /\ queue # None /\ q = "ok"
        text == IF ~found THEN "Error: Alert not found in database"
                ELSE IF success THEN "Jira ticket is being created by " \o payload.user[1]
                ELSE "Failed to create Jira ticket"
    IN  read \o send \o update_slack_message(payload.response_url[1], text, u)

\* handle_create_jira and the return that follows it; payload['user'] of a
\* payload without user raises before anything is read
HandleCreateJira ==
    /\ pc = "create_jira"
    /\ IF ParsedPayload.user = None \/ ParsedPayload.response_url = None
       THEN /\ pc' = "unhandled"
            /\ UNCHANGED <<calls, result>>
       ELSE \E table \in {None, Some("alerts")}, d \in DynamoOutcomes,
               queue \in {None, Some("jira-queue")}, q \in SendOutcomes, u \in UpdateOutcomes :
              /\ calls' = calls \o CreateJiraCalls(ParsedPayload, table, d, queue, q, u)
              /\ pc' = "answered"
              /\ result' = Some([statusCode |-> 200, body |-> ""])
    /\ UNCHANGED <<alert, context, exc, context_text, infra_context, sent, event, services>>

\* handle_acknowledge and the return that follows it
HandleAcknowledge ==
    /\ pc = "acknowledge"
    /\ IF ParsedPayload.user = None \/ ParsedPayload.response_url = None
       THEN /\ pc' = "unhandled"
            /\ UNCHANGED <<calls, result>>
       ELSE \E u \in UpdateOutcomes :
              /\ calls' = calls \o update_slack_message(ParsedPayload.response_url[1],
                               "Alert acknowledged by " \o ParsedPayload.user[1], u)
              /\ pc' = "answered"
              /\ result' = Some([statusCode |-> 200, body |-> ""])
    /\ UNCHANGED <<alert, context, exc, context_text, infra_context, sent, event, services>>

NextSlack ==
    \/ VerifyRequest
    \/ ParsePayload
    \/ HandleCreateJira
    \/ HandleAcknowledge

SpecSlack == InitSlack /\ [][NextSlack]_vars

(***************************************************************************)
(* Properties.  What the classifier is to return is stated here on the     *)
(* strings themselves, by the positions a token occupies.                  *)
(***************************************************************************)
Classified == pc = "classified"

Locator == context.log_context[1]

At(s, i) == SubSeq(s, i, i)

AllIn(t, set) == \A k \in 1..Len(t) : At(t, k) \in set

AllInAnyCase(t, set) == \A k \in 1..Len(t) : At(t, k) \in set \/ LowerChar(At(t, k)) \in set

Occurs(t, s, i) ==
    i >= 1 /\ i + Len(t) - 1 <= Len(s) /\ SubSeq(s, i, i + Len(t) - 1) = t

OccursAnyCase(t, s, i) ==
    /\ i >= 1
    /\ i + Len(t) - 1 <= Len(s)
    /\ LowerChar(At(s, i)) = At(t, 1)
    /\ Lower(SubSeq(s, i, i + Len(t) - 1)) = t

Least(S) == CHOOSE x \in S : \A y \in S : x <= y

Greatest(S) == CHOOSE x \in S : \A y \in S : x >= y

LowerHex == Digits \cup HexLetters

LabelSeparators == {":", " ", "\t", "\n", "\r", "\f"}

EcsMarker(a) ==
    (\E i \in 1..Len(a.log_group) : Occurs("/ecs/", a.log_group, i))
        \/ (\E i \in 1..Len(a.log_stream) : Occurs("/ecs/", a.log_stream, i))

LambdaMarker(a) == \E i \in 1..Len(a.log_group) : Occurs("/lambda/", a.log_group, i)

Ec2Marker(a) == \E i \in 1..Len(a.log_group) : OccursAnyCase("ec2", a.log_group, i)

KubernetesSignal(a) ==
    (\E i \in 1..Len(a.message) : OccursAnyCase("kubernetes", a.message, i))
        \/ (\E i \in 1..Len(a.log_stream) : OccursAnyCase("pod", a.log_stream, i))

\* the path segment that follows the leftmost marker with a segment after it
SegmentAfter(marker, g) ==
    LET hits == {i \in 1..Len(g) : Occurs(marker, g, i) /\ i + Len(marker) <= Len(g)
                                      /\ At(g, i + Len(marker)) # "/"}
    IN  IF hits = {} THEN None
        ELSE LET a == Least(hits) + Len(marker)
                 b == Greatest({j \in a..Len(g) : \A k \in a..j : At(g, k) # "/"})
             IN  Some(SubSeq(g, a, b))

\* the leftmost run of n lower-case hex characters
FirstHexToken(s, n) ==
    LET hits == {i \in 1..(Len(s) - n + 1) : AllIn(SubSeq(s, i, i + n - 1), LowerHex)}
    IN  IF hits = {} THEN None
        ELSE Some(SubSeq(s, Least(hits), Least(hits) + n - 1))

\* the leftmost 'i-' followed by at least lo hex characters, with at most hi of them
InstanceToken(s, lo, hi) ==
    LET hits == {i \in 1..Len(s) : Occurs("i-", s, i) /\ i + 1 + lo <= Len(s)
                                      /\ AllIn(SubSeq(s, i + 2, i + 1 + lo), LowerHex)}
    IN  IF hits = {} THEN None
        ELSE LET i == Least(hits)
                 b == Greatest({j \in (i + 1 + lo)..(i + 1 + hi) :
                                   j <= Len(s) /\ AllIn(SubSeq(s, i + 2, j), LowerHex)})
             IN  Some(SubSeq(s, i, b))

\* where a token may start after a label written at i: after the label and
\* all of the one or more separators that follow it
TokenStarts(m, spellings, i) ==
    IF \A L \in spellings : ~OccursAnyCase(L, m, i) THEN {}
    ELSE {a \in (i + 1)..Len(m) :
            /\ At(m, a) \notin LabelSeparators
            /\ At(m, a - 1) \in LabelSeparators
            /\ \E L \in spellings : /\ OccursAnyCase(L, m, i)
                                    /\ i + Len(L) < a
                                    /\ AllIn(SubSeq(m, i + Len(L), a - 1), LabelSeparators)}

\* where the token that starts at a ends: the run of token characters (any
\* case), of at least lo characters and cut after hi
TokenEnds(m, a, chars, lo, hi) ==
    {b \in (a + lo - 1)..Len(m) :
        /\ b - a + 1 <= hi
        /\ AllInAnyCase(SubSeq(m, a, b), chars)
        /\ (b = Len(m) \/ b - a + 1 = hi \/ ~AllInAnyCase(At(m, b + 1), chars))}

\* the token of the leftmost label that has one
LabeledToken(m, spellings, chars, lo, hi) ==
    LET hits == {i \in 1..Len(m) :
                    \E a \in TokenStarts(m, spellings, i) : TokenEnds(m, a, chars, lo, hi) # {}}
    IN  IF hits = {} THEN None
        ELSE LET i == Least(hits)
                 a == CHOOSE x \in TokenStarts(m, spellings, i) :
                         TokenEnds(m, x, chars, lo, hi) # {}
                 b == CHOOSE y \in TokenEnds(m, a, chars, lo, hi) : TRUE
             IN  Some(SubSeq(m, a, b))

\* the leftmost fragment app/<name>/<n lower-case hex characters>
AlbFragment(m, n) ==
    LET ends(i) == {j \in (i + 4)..Len(m) :
                       /\ AllIn(SubSeq(m, i + 4, j), LowerLetters \cup UpperLetters \cup Digits \cup {"-"})
                       /\ Occurs("/", m, j + 1)
                       /\ j + 1 + n <= Len(m)
                       /\ AllIn(SubSeq(m, j + 2, j + 1 + n), LowerHex)}
        hits == {i \in 1..Len(m) : Occurs("app/", m, i) /\ ends(i) # {}}
    IN  IF hits = {} THEN None
        ELSE LET i == Least(hits)
                 j == CHOOSE x \in ends(i) : TRUE
             IN  Some(SubSeq(m, i, j + 1 + n))

(***************************************************************************)
(* Properties of gather_all_context                                        *)
(***************************************************************************)
GatherEnded == pc \in {"returned", "raised"}

Failures == {"ClientError", "BotoCoreError", "KeyError"}

\* one of the boto3 calls the client call made failed
CallFailed(c) == \E k \in DOMAIN c.backend : c.backend[k] \in Failures

IssuedCalls == {calls[i].fn : i \in DOMAIN calls}

\* the client calls that apply to an alert, whatever the backends do
ApplicableCalls(a) ==
    LET both == a.has_group /\ a.has_stream
        lc   == extract_log_context(a.log_group, a.log_stream, a.message)
        id   == both /\ Truthy(lc.resource_id)
    IN  {"get_recent_cloudformation_changes"}
            \cup (IF both THEN {"get_recent_logs"} ELSE {})
            \cup (IF id /\ lc.infrastructure_type = "ecs" THEN {"get_ecs_task_health"} ELSE {})
            \cup (IF id /\ lc.infrastructure_type = "ec2" THEN {"get_ec2_instance_status"} ELSE {})
            \cup (IF both /\ Truthy(lc.load_balancer_name) THEN {"get_alb_target_health"} ELSE {})
            \cup (IF a.has_group THEN {"get_cloudwatch_metrics"} ELSE {})
            \cup (IF id THEN {"get_resource_tags"} ELSE {})

\* the field of the context a client call's result goes to
StoredFor(fn) ==
    IF fn = "get_recent_logs" THEN context.recent_logs
    ELSE IF fn = "get_ecs_task_health" THEN context.compute.ecs
    ELSE IF fn = "get_ec2_instance_status" THEN context.compute.ec2
    ELSE IF fn = "get_alb_target_health" THEN Some(context.load_balancers)
    ELSE IF fn = "get_recent_cloudformation_changes" THEN Some(context.recent_changes)
    ELSE IF fn = "get_cloudwatch_metrics" THEN Some(context.metrics)
    ELSE Some(context.resource_tags)

Unavailable(reason) == [t |-> "Unavailable", v |-> <<Entry("reason", reason)>>]

\* C1: gather_all_context never raises, whatever the backends do, and a
\* context returned after a failed call carries a 'degraded' marker.
C1_GatherNeverFailsOutright ==
    /\ pc # "raised"
    /\ (pc = "returned" /\ \E i \in DOMAIN calls : CallFailed(calls[i]))
          => "degraded" \in DOMAIN context

\* C2: bulkhead isolation: when gather_all_context has ended, every client
\* call that applies to the alert was issued, whatever the other calls did.
C2_BulkheadIsolation == GatherEnded => IssuedCalls = ApplicableCalls(alert)

\* C3: an exception that leaves a client call is caught at the call site:
\* the call's field holds Unavailable("aggregation error") and gather goes on.
C3_UnexpectedErrorCaughtAtCallSite ==
    \A i \in DOMAIN calls :
        calls[i].raised # None =>
            /\ pc # "raised"
            /\ StoredFor(calls[i].fn) = Some(Unavailable("aggregation error"))

\* C4: no status client lets a failure of its backing service (a service
\* error, or the service not reached) leave it as an exception.
C4_ClientsConvertBackendFailures ==
    \A i \in DOMAIN calls :
        (\E k \in DOMAIN calls[i].backend : calls[i].backend[k] \in {"ClientError", "BotoCoreError"})
            => calls[i].raised = None

(***************************************************************************)
(* Properties of extract_log_context                                       *)
(***************************************************************************)
\* C5: with 'kubernetes' in the message or 'pod' in the stream (any case) the
\* kind is kubernetes, whatever the path rules found, and pod name, node
\* name and namespace are each the token of their own label in the message.
C5_KubernetesOverride ==
    (Classified /\ KubernetesSignal(alert)) =>
        /\ Locator.infrastructure_type = "kubernetes"
        /\ Locator.pod_name =
              LabeledToken(alert.message, {"podname", "pod_name", "pod-name"},
                           LowerLetters \cup Digits \cup {"-"}, 1, Len(alert.message))
        /\ Locator.node_name =
              LabeledToken(alert.message, {"nodename", "node_name", "node-name"},
                           LowerLetters \cup Digits \cup {"-", "."}, 1, Len(alert.message))
        /\ Locator.namespace =
              LabeledToken(alert.message, {"namespace"},
                           LowerLetters \cup Digits \cup {"-"}, 1, Len(alert.message))

\* the spec's example, on a group and stream the container-task rule matches
C5_Witness ==
    /\ Classified
    /\ alert.log_group = "/ecs/my-cluster/service"
    /\ alert.message = "kubernetes pod_name: web-1 node_name: ip-10-0-1-5"
    /\ Locator.task_id # None
    /\ Locator.infrastructure_type = "kubernetes"
    /\ Locator.pod_name = Some("web-1")
    /\ Locator.node_name = Some("ip-10-0-1-5")
    /\ Locator.namespace = None

\* C6: with '/ecs/' in the group or the stream and no Kubernetes signal, the
\* kind is ecs, the cluster name is the group's path segment after '/ecs/',
\* and resource id and task id are the stream's 32-hex-character token, or
\* empty when it has none.
C6_ContainerTaskRule ==
    (Classified /\ EcsMarker(alert) /\ ~KubernetesSignal(alert)) =>
        /\ Locator.infrastructure_type = "ecs"
        /\ Locator.cluster_name = SegmentAfter("/ecs/", alert.log_group)
        /\ Locator.resource_id = FirstHexToken(alert.log_stream, 32)
        /\ Locator.task_id = Locator.resource_id

C6_Witness ==
    /\ Classified
    /\ alert.log_group = "/ecs/my-cluster/service"
    /\ ~KubernetesSignal(alert)
    /\ Locator.infrastructure_type = "ecs"
    /\ Locator.cluster_name = Some("my-cluster")
    /\ Locator.resource_id = Some("0123456789abcdef0123456789abcdef")
    /\ Len(alert.log_stream) > 32

\* C7: with '/lambda/' in the group, no container-task match and no
\* Kubernetes signal, the kind is lambda and the resource id is the path
\* segment after the marker, whether or not the group has '/aws/lambda/'.
C7_ServerlessRule ==
    (Classified /\ LambdaMarker(alert) /\ ~EcsMarker(alert) /\ ~KubernetesSignal(alert)) =>
        /\ Locator.infrastructure_type = "lambda"
        /\ Locator.resource_id = SegmentAfter("/lambda/", alert.log_group)

\* C8: with 'ec2' (any case) in the group, neither of the first two rules
\* matching and no Kubernetes signal, the kind is ec2 and the resource id is
\* the stream's token 'i-' plus 8 to 17 hex characters, or empty.
C8_VirtualMachineRule ==
    (Classified /\ Ec2Marker(alert) /\ ~EcsMarker(alert) /\ ~LambdaMarker(alert)
        /\ ~KubernetesSignal(alert)) =>
        /\ Locator.infrastructure_type = "ec2"
        /\ Locator.resource_id = InstanceToken(alert.log_stream, 8, 17)

C8_Witness ==
    /\ Classified
    /\ alert.log_group = "/var/log/EC2/app"
    /\ alert.log_stream = "host/i-0123456789abcdef0123/syslog"
    /\ Locator.infrastructure_type = "ec2"
    /\ Locator.resource_id = Some("i-0123456789abcdef0")

\* C9: the path rules are first-match-wins in the order ecs, lambda, ec2:
\* without a Kubernetes signal the kind is that of the earliest rule whose
\* marker is there, and only that rule fills resource id, task id and
\* cluster name.
C9_FirstMatchWins ==
    Classified =>
        /\ ~KubernetesSignal(alert) =>
              Locator.infrastructure_type =
                 IF EcsMarker(alert) THEN "ecs"
                 ELSE IF LambdaMarker(alert) THEN "lambda"
                 ELSE IF Ec2Marker(alert) THEN "ec2"
                 ELSE "unknown"
        /\ EcsMarker(alert) =>
              /\ Locator.resource_id = Locator.task_id
              /\ Locator.resource_id \in {None, FirstHexToken(alert.log_stream, 32)}
        /\ ~EcsMarker(alert) => Locator.cluster_name = None /\ Locator.task_id = None
        /\ (~EcsMarker(alert) /\ LambdaMarker(alert)) =>
              \/ Locator.resource_id = None
              \/ \E i \in 1..Len(alert.log_group) :
                    Occurs("/lambda/" \o Locator.resource_id[1], alert.log_group, i)
        /\ (~EcsMarker(alert) /\ ~LambdaMarker(alert) /\ ~Ec2Marker(alert)) =>
              Locator.resource_id = None

\* a group with both '/lambda/' and 'ec2', and a stream with an instance id
C9_Witness ==
    /\ Classified
    /\ alert.log_group = "/custom/lambda/ec2-fn"
    /\ InstanceToken(alert.log_stream, 8, 17) # None
    /\ ~KubernetesSignal(alert)
    /\ Locator.infrastructure_type = "lambda"
    /\ Locator.resource_id = None

C11_TotalAndExclusive ==
    Classified =>
        LET unmatched == ~EcsMarker(alert) /\ ~LambdaMarker(alert) /\ ~Ec2Marker(alert)
                            /\ ~KubernetesSignal(alert)
            tokens == \/ LabeledToken(alert.message,
                                      {"containerid", "container_id", "container-id"},
                                      LowerHex, 12, 64) # None
                      \/ AlbFragment(alert.message, 16) # None
        IN  /\ Locator.infrastructure_type \in {"unknown", "ecs", "lambda", "ec2", "kubernetes"}
            /\ Locator.infrastructure_type = "unknown" <=> unmatched
            /\ Locator.log_group = alert.log_group /\ Locator.log_stream = alert.log_stream
            /\ (unmatched /\ ~tokens) =>
                  \A f \in {"resource_id", "pod_name", "node_name", "namespace", "container_id",
                             "cluster_name", "task_id", "load_balancer_name"} : Locator[f] = None

\* a stream with an instance id and a message with labels, under a group
\* that no rule matches
C11_Witness ==
    /\ Classified
    /\ alert.log_group = "/app/misc"
    /\ alert.log_stream = "i-" \o HexRun(InstanceIdMin)
    /\ alert.message = "pod_name: web-1 node_name: n1 namespace: prod"
    /\ Locator.infrastructure_type = "unknown"
    /\ Locator.resource_id = None
    /\ Locator.pod_name = None

(***************************************************************************)
(* Which client calls gather_all_context selects                           *)
(***************************************************************************)
GatherStages ==
    <<"recent_logs", "compute", "load_balancers", "recent_changes", "metrics", "resource_tags">>

\* the stage a client call belongs to
StageOf(fn) ==
    IF fn = "get_recent_logs" THEN 1
    ELSE IF fn \in {"get_ecs_task_health", "get_ec2_instance_status"} THEN 2
    ELSE IF fn = "get_alb_target_health" THEN 3
    ELSE IF fn = "get_recent_cloudformation_changes" THEN 4
    ELSE IF fn = "get_cloudwatch_metrics" THEN 5
    ELSE IF fn = "get_resource_tags" THEN 6
    ELSE 7

GatherFns ==
    {"get_recent_logs", "get_ecs_task_health", "get_ec2_instance_status",
     "get_alb_target_health", "get_recent_cloudformation_changes", "get_cloudwatch_metrics",
     "get_resource_tags"}

\* gather_all_context has gone through stage k: it is at a later stage, it
\* has returned, or the call that raised was made at stage k or later
PassedStage(k) ==
    IF exc # None
    THEN \E i \in DOMAIN calls :
            calls[i].fn \in GatherFns /\ calls[i].raised # None /\ StageOf(calls[i].fn) >= k
    ELSE IF pc = "start" THEN FALSE
    ELSE \A j \in 1..k : pc # GatherStages[j]

CallsOf(fn) == {i \in DOMAIN calls : calls[i].fn = fn}

ClassifiedAlert == alert.has_group /\ alert.has_stream

KindOf(a) ==
    IF KubernetesSignal(a) THEN "kubernetes"
    ELSE IF EcsMarker(a) THEN "ecs"
    ELSE IF LambdaMarker(a) THEN "lambda"
    ELSE IF Ec2Marker(a) THEN "ec2"
    ELSE "unknown"

C15_TagFetchSelection ==
    \A i \in CallsOf("get_resource_tags") :
        /\ ClassifiedAlert
        /\ calls[i].args[1] # ""
        /\ calls[i].args[2] \in {"ecs", "lambda", "ec2", "kubernetes"}
        /\ calls[i].args[2] = KindOf(alert)

C15_Witness ==
    /\ pc = "returned"
    /\ \E i \in CallsOf("get_resource_tags") :
          calls[i].args = <<"i-" \o HexRun(InstanceIdMax), "ec2">>
    /\ IsTruthy(context.resource_tags)

(***************************************************************************)
(* Properties of lambda_handler                                            *)
(***************************************************************************)
HandlerFns == {"http.request", "sqs.send_message"}

\* C16: an exception that leaves gather_all_context does not stop the
\* handler: it is caught, the context text is the fixed 'gathering failed'
\* text and the context is empty, the handler goes on to ask for the
\* analysis, and the message it then sends has the alert's raw message and
\* the infrastructure type 'unknown'; the handler ends without a message
\* only if the model API call or the queue call itself raised.
C16_GatherFailureDoesNotStopHandler ==
    exc # None =>
        /\ pc \in {"raised", "analyze", "unhandled", "done"}
        /\ pc = "raised" => ENABLED HandlerCatch
        /\ pc # "raised" => context_text = FallbackText /\ infra_context = None
        /\ pc = "analyze" => ENABLED Distribute
        /\ pc = "unhandled" =>
              /\ sent = <<>>
              /\ calls[Len(calls)].fn \in HandlerFns
              /\ calls[Len(calls)].raised # None
        /\ pc = "done" =>
              /\ Len(sent) = 1
              /\ sent[1].alert = alert.message
              /\ sent[1].infrastructure_context.type = Some("unknown")
              /\ \E i \in DOMAIN calls :
                    calls[i].fn = "http.request" /\ calls[i].args = <<alert.message, FallbackText>>

\* a container-task alert whose gather raised, and whose message was sent
C16_Witness ==
    /\ pc = "done"
    /\ exc = Some("BotoCoreError")
    /\ alert.has_group /\ alert.has_stream
    /\ KindOf(alert) = "ecs"
    /\ Len(sent) = 1
    /\ sent[1].alert = alert.message
    /\ sent[1].infrastructure_context.type = Some("unknown")
    /\ context_text = FallbackText

(***************************************************************************)
(* Properties of format_context_for_prompt, stated on the text it returns  *)
(***************************************************************************)
RECURSIVE SplitAt(_, _, _)
\* the lines of text from position from on, NL being where its newlines are
SplitAt(text, NL, from) ==
    LET after == {j \in NL : j >= from}
    IN  IF after = {} THEN <<SubSeq(text, from, Len(text))>>
        ELSE <<SubSeq(text, from, Least(after) - 1)>> \o SplitAt(text, NL, Least(after) + 1)

LinesOf(text) == SplitAt(text, {j \in 1..Len(text) : At(text, j) = "\n"}, 1)

StartsWith(line, t) == Len(line) >= Len(t) /\ SubSeq(line, 1, Len(t)) = t

\* the section headers, in the order the sections are to appear
SectionHeaders ==
    <<"## Infrastructure Context", "## Recent Log Entries", "## EC2 Instance Health",
      "## ECS Task Health", "## Load Balancer Health", "## Recent Infrastructure Changes",
      "## CloudWatch Metrics", "## Resource Tags">>

\* the rank of the section a header line opens, 0 for any other line
RankOf(line) ==
    IF \E r \in 1..Len(SectionHeaders) : StartsWith(line, SectionHeaders[r])
    THEN CHOOSE r \in 1..Len(SectionHeaders) : StartsWith(line, SectionHeaders[r])
    ELSE 0

\* the ranks of the header lines of a text, in the order they appear
HeaderRanks(text) ==
    LET lines == LinesOf(text)
        ranks == [i \in 1..Len(lines) |-> RankOf(lines[i])]
    IN  SelectSeq(ranks, LAMBDA r : r > 0)

HasSection(text, r) == \E i \in 1..Len(HeaderRanks(text)) : HeaderRanks(text)[i] = r

\* the lines under the header of rank r, up to the blank line that ends them
BodyOf(text, r) ==
    LET lines == LinesOf(text)
        at == {i \in 1..Len(lines) : RankOf(lines[i]) = r}
    IN  IF at = {} THEN <<>>
        ELSE LET h == Least(at)
                 ends == {j \in (h + 1)..Len(lines) : lines[j] = ""}
                 last == IF ends = {} THEN Len(lines) ELSE Least(ends) - 1
             IN  SubSeq(lines, h + 1, last)

\* the handler has rendered the context gather_all_context returned
Rendered == exc = None /\ infra_context # None

\* every boto3 call gather_all_context's clients made failed
AllBackendsFailed ==
    \A i \in DOMAIN calls :
        calls[i].fn \in GatherFns => \A k \in DOMAIN calls[i].backend :
                                        calls[i].backend[k] \in Failures

\* C17: for an alert whose log group and stream match no rule, when every
\* backend call fails, gather_all_context does not raise; the context it
\* returns has no recent logs, compute state, load balancer, recent changes,
\* metrics or tags, and its rendering is the identity section with kind
\* unknown and nothing else.
C17_FullyDegradedGather ==
    (ClassifiedAlert /\ KindOf(alert) = "unknown" /\ AllBackendsFailed) =>
        /\ exc = None
        /\ Rendered =>
              /\ ~IsTruthy(context.recent_logs[1])
              /\ context.compute.ecs = None /\ context.compute.ec2 = None
              /\ ~IsTruthy(context.load_balancers)
              /\ ~IsTruthy(context.recent_changes)
              /\ ~IsTruthy(context.metrics)
              /\ ~IsTruthy(context.resource_tags)
              /\ context_text = "## Infrastructure Context\n- Type: unknown"

\* a client call whose backend answered with data
Answered(fn) ==
    \E i \in CallsOf(fn) : \E k \in DOMAIN calls[i].backend :
        calls[i].backend[k] = "ok" /\ (fn = "get_ecs_task_health" => k > 1)

\* C18: in the rendering of a context gather_all_context returned, a
\* section's header is there iff the section's fetch produced data: the
\* identity section iff the alert was classified, and each of recent logs,
\* EC2 health, ECS health, load balancer, recent changes, metrics and tags
\* iff its backend answered with data (for metrics: at least one metric has
\* values).
C18_SectionIffData ==
    Rendered =>
        /\ HasSection(context_text, 1) <=> ClassifiedAlert
        /\ HasSection(context_text, 2) <=> Answered("get_recent_logs")
        /\ HasSection(context_text, 3) <=> Answered("get_ec2_instance_status")
        /\ HasSection(context_text, 4) <=> Answered("get_ecs_task_health")
        /\ HasSection(context_text, 5) <=> Answered("get_alb_target_health")
        /\ HasSection(context_text, 6) <=> Answered("get_recent_cloudformation_changes")
        /\ HasSection(context_text, 7) <=> Answered("get_cloudwatch_metrics")
        /\ HasSection(context_text, 8) <=> Answered("get_resource_tags")

Formatted == pc \in {"formatted", "formatted_again"}

AvailableStamps ==
    {services.stream[i].timestamp : i \in
        {j \in 1..Len(services.stream) :
            /\ services.stream[j].timestamp >= Now - LookbackMinutes * 60000
            /\ services.stream[j].timestamp <= Now}}

\* the k latest of a set of time stamps
Latest(T, k) == {t \in T : Cardinality({u \in T : u > t}) < k}

\* C21: the recent-log fetch returns at most 50 entries, they are the most
\* recent ones the service holds in the window (exactly 50 of 80), they are
\* ordered newest first, and no message is longer than 500 characters.
C21_RecentLogCapping ==
    pc = "recent_logs" =>
        LET r == result.v
        IN  /\ Len(r) <= LogEventsLimit
            /\ {r[i].timestamp : i \in 1..Len(r)} = Latest(AvailableStamps, LogEventsLimit)
            /\ Cardinality(AvailableStamps) >= LogEventsLimit => Len(r) = LogEventsLimit
            /\ \A i \in 1..Len(r) : \A j \in 1..Len(r) :
                    i < j => r[i].timestamp > r[j].timestamp
            /\ \A i \in 1..Len(r) : Len(r[i].message) <= MessageCap

\* the probes made by the call, in the order made (the first backend call
\* lists the clusters)
ProbesMade == Tail(result.backend)

TimedOut(c) == \E k \in DOMAIN c.backend : c.backend[k] = "BotoCoreError"

\* what a client returns when its service gave nothing
EmptyValueOf(fn) ==
    IF fn \in {"get_recent_logs", "get_recent_cloudformation_changes"} THEN PyList(<<>>)
    ELSE IF fn \in {"get_ecs_task_health", "get_ec2_instance_status", "get_alb_target_health"}
    THEN PyNone
    ELSE PyDict(<<>>)

\* C23: every client call of gather is time-bounded: a call whose backend
\* does not answer ends with the client's Unavailable value when its timeout
\* expires, and gather goes on to return a context.
C23_TimeoutMappedToUnavailable ==
    \A i \in DOMAIN calls :
        (calls[i].fn \in GatherFns /\ TimedOut(calls[i])) =>
            /\ calls[i].raised = None
            /\ pc # "raised"
            /\ PassedStage(StageOf(calls[i].fn)) =>
                   StoredFor(calls[i].fn) = Some(EmptyValueOf(calls[i].fn))

\* the stacks CloudFormation holds whose last update (creation, when never
\* updated) is within the 24 hours before the call
UpdatedInWindow ==
    {i \in DOMAIN services.stacks :
        LET s == services.stacks[i]
            t == IF s.LastUpdatedTime = None THEN s.CreationTime ELSE s.LastUpdatedTime[1]
        IN  t > Now \div 1000 - LookbackHours * 3600}

\* the events of the i-th stack within the window that tell of a failure
FailuresInWindow(i) ==
    {[resource |-> e.LogicalResourceId, status |-> e.ResourceStatus,
      reason |-> e.ResourceStatusReason] :
        e \in {services.stacks[i].StackEvents[k] : k \in
                  {j \in DOMAIN services.stacks[i].StackEvents :
                      /\ services.stacks[i].StackEvents[j].Timestamp
                           > Now \div 1000 - LookbackHours * 3600
                      /\ \E a \in 1..Len(services.stacks[i].StackEvents[j].ResourceStatus) - 5 :
                            SubSeq(services.stacks[i].StackEvents[j].ResourceStatus, a, a + 5)
                               = "FAILED"}}}

\* the result has one record for each stack of I and no other, and each
\* record lists the failures of its stack within the window
ResultIsStacks(I) ==
    LET r == result.v
    IN  /\ Len(r) = Cardinality(I)
        /\ {r[k].stack_name : k \in 1..Len(r)} = {services.stacks[i].StackName : i \in I}
        /\ \A k \in 1..Len(r) : \A i \in I :
                r[k].stack_name = services.stacks[i].StackName =>
                    /\ {r[k].failed_resources[j] : j \in DOMAIN r[k].failed_resources}
                          = FailuresInWindow(i)
                    /\ Len(r[k].failed_resources) = Cardinality(FailuresInWindow(i))

MetricsOfShape(g) ==
    IF \E a \in 1..Len(g) - 7 : SubSeq(g, a, a + 7) = "/lambda/"
    THEN <<"errors", "duration", "concurrency">>
    ELSE IF \E a \in 1..Len(g) - 4 : SubSeq(g, a, a + 4) = "/ecs/"
    THEN <<"cpu", "memory">>
    ELSE <<>>

RECURSIVE Total(_, _)
\* the sum of the values of the datapoints at the indices I
Total(dps, I) ==
    IF I = {} THEN 0
    ELSE LET i == CHOOSE x \in I : TRUE IN dps[i].value + Total(dps, I \ {i})

\* e is the reduction of the datapoints dps: the value at the latest time
\* stamp, the mean, the largest value and the number of datapoints
ReducedTo(e, dps) ==
    /\ e.t = "dict"
    /\ {e.v[i].k : i \in DOMAIN e.v} = {"current", "average", "max", "datapoints"}
    /\ \E i \in DOMAIN dps :
          /\ \A j \in DOMAIN dps : dps[j].Timestamp <= dps[i].Timestamp
          /\ DictGet(e, "current") = <<dps[i].value>>
    /\ DictGet(e, "average")[1] * Len(dps) = Total(dps, DOMAIN dps)
    /\ \E i \in DOMAIN dps :
          /\ \A j \in DOMAIN dps : dps[j].value <= dps[i].value
          /\ DictGet(e, "max") = <<dps[i].value>>
    /\ DictGet(e, "datapoints") = <<Len(dps)>>

KubernetesOverTask ==
    /\ ClassifiedAlert
    /\ EcsMarker(alert)
    /\ FirstHexToken(alert.log_stream, 32) # None
    /\ KubernetesSignal(alert)

NoStream == alert.has_group /\ ~alert.has_stream

RecordCalls == {i \in DOMAIN calls : calls[i].fn # "ssm.get_parameter"}

\* C28: the analyzer handler processes at most one record per invocation:
\* of an event with records only the first is ever taken, gathered for,
\* analysed and forwarded, and the handler returns after it; with no record
\* nothing is gathered or sent and the answer is 'No records processed'.
C28_OneRecordPerInvocation ==
    /\ event.taken <= 1
    /\ event.taken = 1 => alert = event.Records[1]
    /\ event.taken = 0 => RecordCalls = {} /\ sent = <<>>
    /\ Len(sent) <= 1
    /\ \A i \in DOMAIN sent :
          /\ sent[i].alert = event.Records[1].message
          /\ sent[i].log_group = event.Records[1].log_group
          /\ sent[i].log_stream = event.Records[1].log_stream
    /\ \A i \in RecordCalls :
          /\ calls[i].fn \in {"get_recent_logs", "get_cloudwatch_metrics"} =>
                calls[i].args[1] = event.Records[1].log_group
          /\ calls[i].fn \in {"http.request", "sqs.send_message"} =>
                calls[i].args[1] = event.Records[1].message
    /\ pc = "done" =>
          /\ Len(sent) = 1
          /\ Cardinality({i \in DOMAIN calls : calls[i].fn = "http.request"}) = 1
          /\ result[1].statusCode = 200
          /\ result[1].body.alert = event.Records[1].message
    /\ pc = "no_records" <=>
          (Len(event.Records) = 0 /\ result = Some([statusCode |-> 200,
                                                     body |-> "No records processed"]))
    /\ Len(event.Records) = 0 => pc \in {"handler", "records", "no_records", "unhandled"}

\* the handler has returned from the first of two different records
C28_Witness ==
    /\ pc = "done"
    /\ Len(event.Records) = 2
    /\ event.Records[1] # event.Records[2]
    /\ event.taken = 1
    /\ Len(sent) = 1

\* the handler has returned from an event without records
C28_WitnessNoRecords ==
    /\ pc = "no_records"
    /\ event.Records = <<>>
    /\ Len(calls) = 1

(***************************************************************************)
(* The Kubernetes attributes and the kind                                  *)
(***************************************************************************)
\* the message has one of the three Kubernetes labels followed by a token
KubernetesLabels(m) ==
    \/ LabeledToken(m, {"podname", "pod_name", "pod-name"},
                    LowerLetters \cup Digits \cup {"-"}, 1, Len(m)) # None
    \/ LabeledToken(m, {"nodename", "node_name", "node-name"},
                    LowerLetters \cup Digits \cup {"-", "."}, 1, Len(m)) # None
    \/ LabeledToken(m, {"namespace"}, LowerLetters \cup Digits \cup {"-"}, 1, Len(m)) # None

\* C29: in every locator pod name, node name or namespace is set only if the
\* kind is kubernetes; a message with the labels but without the word
\* 'kubernetes', on a stream without 'pod', yields none of the three.
C29_KubernetesFieldsOnlyForKubernetes ==
    Classified =>
        /\ (Locator.pod_name # None \/ Locator.node_name # None \/ Locator.namespace # None) =>
              Locator.infrastructure_type = "kubernetes"
        /\ ~KubernetesSignal(alert) =>
              /\ Locator.pod_name = None
              /\ Locator.node_name = None
              /\ Locator.namespace = None

\* a container task whose message has the labels without the word: none of
\* the three is set, the container id and the load balancer are
C29_Witness ==
    /\ Classified
    /\ KubernetesLabels(alert.message)
    /\ ~KubernetesSignal(alert)
    /\ Locator.infrastructure_type = "ecs"
    /\ Locator.pod_name = None
    /\ Locator.node_name = None
    /\ Locator.namespace = None
    /\ Locator.container_id = Some(HexRun(ContainerIdMin))
    /\ Locator.load_balancer_name = Some("app/my-alb/" \o HexRun(AlbHexLen))

(***************************************************************************)
(* Properties of the Slack interactions handler                            *)
(***************************************************************************)
\* the calls that read the alert, queue the ticket or update the Slack message
SlackSideEffects ==
    {i \in DOMAIN calls : calls[i].fn \in {"dynamodb.get_item", "sqs.send_message", "http.request"}}

\* the values of the request's headers of that name, in any case
HeaderValues(name) ==
    IF event[1].headers = None \/ event[1].headers[1].t # "dict" THEN {}
    ELSE {event[1].headers[1].v[i].x :
             i \in {j \in DOMAIN event[1].headers[1].v : Lower(event[1].headers[1].v[j].k) = name}}

\* the signing secret is configured and retrieved: a plain string, or a
\* JSON object
SecretRetrieved ==
    /\ services[1].SLACK_SIGNING_SECRET # None
    /\ services[1].secret.t = "string"
    /\ services[1].secret.s # "12345"

\* the key the secret holds, if it holds one
SigningKeys ==
    IF services[1].secret.s = "{\"signing_secret\": \"8f74\"}" THEN {"8f74"}
    ELSE IF services[1].secret.s = "sk-8f74" THEN {"sk-8f74"}
    ELSE {}

HeaderMissing ==
    \/ HeaderValues("x-slack-signature") \subseteq {HeaderValue("")}
    \/ HeaderValues("x-slack-request-timestamp") \subseteq {HeaderValue("")}

\* the seconds the timestamp header states, when it states any
StatedSeconds ==
    {int(v.text)[1] : v \in {x \in HeaderValues("x-slack-request-timestamp") :
                                int(x.text) # None}}

TimestampStale == \E n \in StatedSeconds : Abs(TimeNow - 1000 * n) > 1000 * ReplayWindow

SignatureWrong ==
    \E k \in SigningKeys, v \in HeaderValues("x-slack-signature"),
       t \in HeaderValues("x-slack-request-timestamp") :
        /\ v.ascii
        /\ v # Signature(k, "v0:" \o t.text \o ":" \o event[1].body)

\* C30: a request whose verification answers False is answered 403 and
\* nothing is read, queued or updated for it; the verification answers False
\* exactly when the secret is configured and retrieved and a header is
\* missing, the timestamp is more than five minutes from now, or the
\* signature is not the HMAC; with no secret configured, or on any error in
\* the verification, the request is accepted and its action is executed.
C30_RejectedRequestsHaveNoEffect ==
    /\ pc \in {"request", "forbidden"} => SlackSideEffects = {}
    /\ pc = "forbidden" =>
          result = Some([statusCode |-> 403,
                         body |-> "{\"error\": \"Invalid request signature\"}"])
    /\ pc # "request" =>
          (pc = "forbidden" <=>
              /\ SecretRetrieved
              /\ event[1].headers # Some(PyNone)
              /\ \/ HeaderMissing
                 \/ StatedSeconds # {} /\ TimestampStale
                 \/ StatedSeconds # {} /\ SignatureWrong)
    /\ (pc = "answered" /\ ~event[1].isBase64Encoded /\ event[1].body = AcknowledgeBody) =>
          /\ Cardinality(SlackSideEffects) = 1
          /\ \A i \in SlackSideEffects : calls[i].fn = "http.request"
    /\ (pc = "answered" /\ event[1].body = CreateJiraBody) =>
          /\ SlackSideEffects # {}
          /\ calls[Len(calls)].fn = "http.request"
          /\ \A i \in SlackSideEffects :
                calls[i].fn = "sqs.send_message" =>
                   /\ i > 1
                   /\ calls[i - 1].fn = "dynamodb.get_item"
                   /\ calls[i - 1].backend = <<"item">>

\* a button click signed with another key at a fresh time: 403 and nothing
\* but the secret was fetched
C30_Witness ==
    /\ pc = "forbidden"
    /\ event[1].body = CreateJiraBody
    /\ HeaderValues("x-slack-request-timestamp") = {HeaderValue("1000")}
    /\ HeaderValues("x-slack-signature") =
          {Signature("0000", "v0:1000:" \o CreateJiraBody)}
    /\ Len(calls) = 1
    /\ calls[1].fn = "secretsmanager.get_secret_value"

\* the same click with a signature that is no digest and a secret that
\* could not be fetched: the ticket is queued
C30_WitnessFailOpen ==
    /\ pc = "answered"
    /\ event[1].body = CreateJiraBody
    /\ HeaderValues("x-slack-signature") = {HeaderValue("v0=deadbeef")}
    /\ services[1].secret.t = "raise"
    /\ services[1].SLACK_SIGNING_SECRET # None
    /\ \E i \in DOMAIN calls : calls[i].fn = "sqs.send_message" /\ calls[i].backend = <<"ok">>

====
